---- MODULE Spec2Model ----
(***************************************************************************)
(* Model of deathgenerator2yaff.py: conversion of a glyph-coordinate table *)
(* (JSON) plus a sprite sheet (PNG) into YAFF documents.                    *)
(*                                                                         *)
(* Representation                                                          *)
(*   colour      <<r, g, b, a>>                                            *)
(*   image       sequence of rows, each a sequence of colours (RGBA);      *)
(*               image.size = (Len(image[1]), Len(image))                  *)
(*   dict        a function whose DOMAIN is the set of keys present, so    *)
(*               that  k \in DOMAIN d  is Python's  k in d                 *)
(*   font_data   [top |-> dict of the scalar entries read ("height"),      *)
(*                default |-> the 'default' dict ({} when absent),         *)
(*                items |-> the other entries in document order, each      *)
(*                          [key |-> string, isdict |-> BOOLEAN, val |->   *)
(*                          dict],                                         *)
(*                subfonts |-> sequence of [name, data] in document order] *)
(*   ratio       a float quotient n / d of two counts is kept as the       *)
(*               reduced fraction <<n, d>>; comparisons with the decimal   *)
(*               literals of the source are done in integers (for counts   *)
(*               far below 2^53 the correctly rounded quotient compares    *)
(*               with the rounded literal exactly as the fraction does     *)
(*               with the decimal)                                         *)
(***************************************************************************)
EXTENDS Integers, Sequences, FiniteSets, TLC

VARIABLES
    game_name,      \* basename of the game directory (font id)
    image,          \* the sprite sheet
    font_data,      \* the parsed JSON document
    negative_wraps, \* whether Image.getpixel resolves a negative index from the far edge
    libm_pow,       \* which neighbouring double the C library's pow returns
    batch,          \* convert_all.py: the directory listing and the driver's locals
    generators_js,  \* js/generators.js: <<>> when unreadable, else <<table>>
    pc,             \* position inside generate_yaff, or the function applied
    pattern,        \* classification of the (sub)font being processed
    auto_pattern,   \* what analyze_font_pattern returned for it
    sub_i,          \* index of the subfont being processed (0: main font)
    files,          \* calls of write_single_yaff so far, with the file written
    skipped,        \* ids reported as SKIPPED, in order
    metadata_cache, \* _GAME_METADATA_CACHE: <<>> for None, else <<dict>>
    reads,          \* number of times generators.js was opened
    arg,            \* arguments of the function applied
    ret             \* its result

vars == <<game_name, image, font_data, negative_wraps, libm_pow, batch, generators_js, pc,
          pattern, auto_pattern, sub_i, files, skipped, metadata_cache, reads,
          arg, ret>>

\* the driver is not running
NoBatch == <<>>

(***************************************************************************)
(* Bounds of the input families                                            *)
(***************************************************************************)
ImgW == 2
MaxGlyphW == 2
MaxSubfonts == 2
MaxRect == 2
SampleLen == 10

(***************************************************************************)
(* dict helpers                                                            *)
(***************************************************************************)
EmptyDict == [k \in {} |-> 0]

Get(d, k, dflt) == IF k \in DOMAIN d THEN d[k] ELSE dflt

Put(d, k, v) == [x \in (DOMAIN d) \cup {k} |-> IF x = k THEN v ELSE d[x]]

\* d.get(k) used as a condition, for the boolean-valued keys
Truthy(d, k) == k \in DOMAIN d /\ d[k] = TRUE

Max2(a, b) == IF a >= b THEN a ELSE b
Min2(a, b) == IF a <= b THEN a ELSE b
Max3(a, b, c) == Max2(a, Max2(b, c))
Abs(a) == IF a >= 0 THEN a ELSE 0 - a

SetMax(S) == CHOOSE m \in S : \A n \in S : n <= m

RECURSIVE Gcd(_, _)
Gcd(a, b) == IF b = 0 THEN a ELSE Gcd(b, a % b)

Ratio(n, d) == <<n \div Gcd(n, d), d \div Gcd(n, d)>>

\* list(range(lo, hi)) as a sequence
Range(lo, hi) == [i \in 1..Max2(hi - lo, 0) |-> lo + i - 1]

(***************************************************************************)
(* Static tables                                                           *)
(***************************************************************************)
FONT_TYPE_OVERRIDES ==
    [sttngafu |-> "chromatic_shadowed_bright",
     mw |-> "antialiased",
     nesticle |-> "shadowed",
     ft2 |-> "chromatic_shadowed",
     estsk |-> "chromatic_bright",
     goldeneye007 |-> "antialiased",
     quake |-> "shadowed",
     psh |-> "chromatic_shadowed_bright",
     scnes |-> "chromatic_shadowed_bright",
     wof |-> "chromatic_bright",
     ff8 |-> "chromatic_shadowed_bright",
     fft |-> "antialiased",
     karnovr |-> "chromatic_bright",
     pokesnap |-> "chromatic_shadowed_bright",
     rr |-> "chromatic_bright",
     smrpg |-> "chromatic_outlined",
     swatkats |-> "chromatic_outlined",
     smurfs3 |-> "antialiased",
     sth2i |-> "antialiased",
     wea |-> "chromatic_bright"]
    @@ ("wof-red" :> "chromatic_bright")

CP1252_TO_UNICODE == (145 :> 8216) @@ (146 :> 8217)

metadata_keys ==
    {"height", "origin", "scale", "wrap-width", "dynamic-size", "border",
     "overlays", "hooks", "subfonts", "notes", "case-fold", "null-character",
     "default", "explicit-origins", "us-font-aliases", "soviet-font-aliases"}

FontTypes ==
    {"monochrome_solid", "outlined", "shadowed", "chromatic_outlined",
     "chromatic_shadowed", "chromatic_shadowed_bright", "chromatic_bright",
     "antialiased", "multi_color", "unknown"}

(***************************************************************************)
(* Sprite sheet access                                                     *)
(***************************************************************************)
SizeX(img) == Len(img[1])
SizeY(img) == Len(img)

R(c) == c[1]
G(c) == c[2]
B(c) == c[3]
A(c) == c[4]

\* Image.getpixel((px, py)) on the RGBA image.  A negative index is taken
\* from the far edge by the imaging library when negative_wraps holds and
\* is out of range otherwise; an index out of range raises (ok = FALSE).
getpixel(img, px, py) ==
    LET qx == IF px < 0 /\ negative_wraps THEN SizeX(img) + px ELSE px
        qy == IF py < 0 /\ negative_wraps THEN SizeY(img) + py ELSE py
    IN  IF qx >= 0 /\ qx < SizeX(img) /\ qy >= 0 /\ qy < SizeY(img)
        THEN [ok |-> TRUE, c |-> img[qy + 1][qx + 1]]
        ELSE [ok |-> FALSE, c |-> <<0, 0, 0, 0>>]

get_unicode_codepoint(decimal_code) ==
    IF decimal_code \in DOMAIN CP1252_TO_UNICODE
    THEN CP1252_TO_UNICODE[decimal_code]
    ELSE decimal_code

(***************************************************************************)
(* Pixel sampling shared by the two analyses                               *)
(***************************************************************************)
\* the (px, py) visited by
\*   for py in range(y, min(y + h, size[1])): for px in range(x, min(x + w, size[0]))
SamplePositions(img, x, y, w, h) ==
    LET ys == Range(y, Min2(y + h, SizeY(img)))
        xs == Range(x, Min2(x + w, SizeX(img)))
    IN  [i \in 1..(Len(ys) * Len(xs)) |->
            <<xs[((i - 1) % Len(xs)) + 1], ys[((i - 1) \div Len(xs)) + 1]>>]

Count(flags) == Cardinality({i \in DOMAIN flags : flags[i]})

RECURSIVE SumSeq(_)
SumSeq(seq) == IF seq = <<>> THEN 0 ELSE Head(seq) + SumSeq(Tail(seq))

Brightness(c) == Max3(R(c), G(c), B(c))

(***************************************************************************)
(* Binary floating point (Python float, IEEE 754 double)                   *)
(*                                                                         *)
(* A natural number of any size is a sequence of limbs in base 2^15, least *)
(* significant first, without leading zero limbs (<<>> is 0).  A double is *)
(* [neg, m, e] with value (-1)^neg * m * 2^e.  Every value handled here is *)
(* far from the overflow and subnormal ranges.                             *)
(***************************************************************************)
Limb(M, i) == IF i <= Len(M) THEN M[i] ELSE 0

RECURSIVE Norm(_)
Norm(M) == IF M = <<>> THEN <<>>
           ELSE IF M[Len(M)] = 0 THEN Norm(SubSeq(M, 1, Len(M) - 1))
           ELSE M

\* the number n, 0 <= n < 2^30
BigOf(n) == Norm(<<n % (2^15), n \div (2^15)>>)

RECURSIVE AddFrom(_, _, _, _)
AddFrom(M, N, i, c) ==
    IF i > Max2(Len(M), Len(N)) THEN (IF c = 0 THEN <<>> ELSE <<c>>)
    ELSE LET t == Limb(M, i) + Limb(N, i) + c
         IN  <<t % (2^15)>> \o AddFrom(M, N, i + 1, t \div (2^15))

BigAdd(M, N) == AddFrom(M, N, 1, 0)

RECURSIVE SubFrom(_, _, _, _)
SubFrom(M, N, i, borrow) ==
    IF i > Len(M) THEN <<>>
    ELSE LET t == M[i] - Limb(N, i) - borrow
         IN  IF t < 0 THEN <<t + 2^15>> \o SubFrom(M, N, i + 1, 1)
             ELSE <<t>> \o SubFrom(M, N, i + 1, 0)

\* M - N for M >= N
BigSub(M, N) == Norm(SubFrom(M, N, 1, 0))

RECURSIVE CmpFrom(_, _, _)
CmpFrom(M, N, i) ==
    IF i = 0 THEN 0
    ELSE IF M[i] < N[i] THEN 0 - 1
    ELSE IF M[i] > N[i] THEN 1
    ELSE CmpFrom(M, N, i - 1)

\* -1, 0, 1 as M < N, M = N, M > N
BigCmp(M, N) ==
    IF Len(M) < Len(N) THEN 0 - 1
    ELSE IF Len(M) > Len(N) THEN 1
    ELSE CmpFrom(M, N, Len(M))

RECURSIVE MulFrom(_, _, _, _)
MulFrom(M, k, i, c) ==
    IF i > Len(M) THEN (IF c = 0 THEN <<>> ELSE <<c>>)
    ELSE LET t == M[i] * k + c
         IN  <<t % (2^15)>> \o MulFrom(M, k, i + 1, t \div (2^15))

\* M * k for 0 <= k < 2^15
BigMulSmall(M, k) == IF k = 0 THEN <<>> ELSE MulFrom(M, k, 1, 0)

\* M * 2^(15 * n)
ShiftLimbs(M, n) == IF M = <<>> THEN <<>> ELSE [i \in 1..n |-> 0] \o M

RECURSIVE MulAcc(_, _, _)
MulAcc(M, N, j) ==
    IF j > Len(N) THEN <<>>
    ELSE BigAdd(ShiftLimbs(BigMulSmall(M, N[j]), j - 1), MulAcc(M, N, j + 1))

BigMul(M, N) == MulAcc(M, N, 1)

\* M * 2^k
BigShl(M, k) == ShiftLimbs(BigMulSmall(M, 2^(k % 15)), k \div 15)

RECURSIVE DivFrom(_, _, _, _)
DivFrom(M, d, i, r) ==
    IF i = 0 THEN [q |-> <<>>, r |-> r]
    ELSE LET t == r * (2^15) + M[i]
             rest == DivFrom(M, d, i - 1, t % d)
         IN  [q |-> rest.q \o <<t \div d>>, r |-> rest.r]

\* quotient and remainder of M by d, 0 < d < 2^15
BigDivSmall(M, d) ==
    LET res == DivFrom(M, d, Len(M), 0)
    IN  [q |-> Norm(res.q), r |-> res.r]

Bit(M, i) == (Limb(M, (i \div 15) + 1) \div (2^(i % 15))) % 2

RECURSIVE SmallBitLen(_)
SmallBitLen(n) == IF n = 0 THEN 0 ELSE 1 + SmallBitLen(n \div 2)

BitLen(M) == IF M = <<>> THEN 0 ELSE 15 * (Len(M) - 1) + SmallBitLen(M[Len(M)])

\* floor(M / 2^k)
BigShr(M, k) ==
    LET n == BitLen(M) - k
        nl == IF n <= 0 THEN 0 ELSE ((n - 1) \div 15) + 1
        limb(j) == SumSeq([t \in 1..15 |-> Bit(M, k + 15 * (j - 1) + t - 1) * 2^(t - 1)])
    IN  Norm([j \in 1..nl |-> limb(j)])

LowBitsNonzero(M, k) == \E i \in 0..(k - 1) : Bit(M, i) = 1

\* m * 2^e rounded to a 53-bit significand: to nearest, ties to even
\* ("nearest"), or to the neighbour of smaller ("below") or larger ("above")
\* magnitude
RoundTo53(m, e, mode) ==
    LET n == BitLen(m)
        k == n - 53
        q == BigShr(m, k)
        round_bit == Bit(m, k - 1) = 1
        sticky == LowBitsNonzero(m, k - 1)
        up == IF mode = "nearest" THEN round_bit /\ (sticky \/ Bit(q, 0) = 1)
              ELSE IF mode = "above" THEN round_bit \/ sticky
              ELSE FALSE
    IN  IF n <= 53 THEN [m |-> m, e |-> e]
        ELSE [m |-> IF up THEN BigAdd(q, <<1>>) ELSE q, e |-> e + k]

Signed(neg, v) == [neg |-> neg, m |-> v.m, e |-> v.e]

FloatZero == [neg |-> FALSE, m |-> <<>>, e |-> 0]

\* n / d for ints 0 <= n < 2^15, 0 < d < 2^15 (true division, correctly rounded)
FloatDiv(n, d) ==
    LET res == BigDivSmall(BigShl(BigOf(n), 75), d)
    IN  IF n = 0 THEN FloatZero
        ELSE IF res.r = 0 THEN Signed(FALSE, RoundTo53(res.q, 0 - 75, "nearest"))
        ELSE Signed(FALSE, RoundTo53(BigAdd(BigShl(res.q, 1), <<1>>), 0 - 76, "nearest"))

\* a - b for a, b >= 0 (correctly rounded)
FloatSub(a, b) ==
    LET e == Min2(a.e, b.e)
        ma == BigShl(a.m, a.e - e)
        mb == BigShl(b.m, b.e - e)
        c == BigCmp(ma, mb)
    IN  IF c = 0 THEN FloatZero
        ELSE IF c > 0 THEN Signed(FALSE, RoundTo53(BigSub(ma, mb), e, "nearest"))
        ELSE Signed(TRUE, RoundTo53(BigSub(mb, ma), e, "nearest"))

\* a + b for a, b >= 0 (correctly rounded)
FloatAdd(a, b) ==
    LET e == Min2(a.e, b.e)
    IN  Signed(FALSE, RoundTo53(BigAdd(BigShl(a.m, a.e - e), BigShl(b.m, b.e - e)),
                                e, "nearest"))

\* -1, 0, 1 as a < b, a = b, a > b, for a, b >= 0
FloatCmp(a, b) ==
    LET e == Min2(a.e, b.e)
    IN  BigCmp(BigShl(a.m, a.e - e), BigShl(b.m, b.e - e))

\* the exact square of a double (not itself a double)
ExactSquare(a) == [neg |-> FALSE, m |-> BigMul(a.m, a.m), e |-> 2 * a.e]

\* x ** 2: the C library's pow is accurate to less than one unit in the last
\* place, so the result is a double next to the exact square, chosen by
\* libm_pow
PowTwo(x) == Signed(FALSE, RoundTo53(BigMul(x.m, x.m), 2 * x.e, libm_pow))

\* the literals 0.8 and 0.3 as doubles
Literal08 == [neg |-> FALSE, m |-> <<6554, 13107, 26214, 204>>, e |-> 0 - 53]
Literal03 == [neg |-> FALSE, m |-> <<13107, 26214, 19660, 153>>, e |-> 0 - 54]

NextUp(t) == [neg |-> FALSE, m |-> BigAdd(t.m, <<1>>), e |-> t.e]
NextDown(t) == [neg |-> FALSE, m |-> BigSub(t.m, <<1>>), e |-> t.e]
\* halfway between t and NextUp(t), and between NextDown(t) and t
HalfUp(t) == [neg |-> FALSE, m |-> BigAdd(BigShl(t.m, 1), <<1>>), e |-> t.e - 1]
HalfDown(t) == [neg |-> FALSE, m |-> BigSub(BigShl(t.m, 1), <<1>>), e |-> t.e - 1]

\* s ** 0.5 > t for doubles s >= 0, t > 0: the result of pow is the double
\* nearest to the root, or the one just below or above it (libm_pow); it
\* exceeds t exactly when the root lies beyond the matching bound
RootExceeds(s, t) ==
    IF libm_pow = "nearest" THEN FloatCmp(s, ExactSquare(HalfUp(t))) > 0
    ELSE IF libm_pow = "below" THEN FloatCmp(s, ExactSquare(NextUp(t))) >= 0
    ELSE FloatCmp(s, ExactSquare(t)) > 0

\* s ** 0.5 < t, likewise
RootBelow(s, t) ==
    IF libm_pow = "nearest" THEN FloatCmp(s, ExactSquare(HalfDown(t))) < 0
    ELSE IF libm_pow = "below" THEN FloatCmp(s, ExactSquare(t)) < 0
    ELSE FloatCmp(s, ExactSquare(NextDown(t))) <= 0

(***************************************************************************)
(* detect_spatial_pattern                                                  *)
(***************************************************************************)
\* offset_magnitude > 0.8, < 0.3 for the offsets of the two centroids
SpatialVerdict(offset_x, offset_y) ==
    LET sum == FloatAdd(PowTwo(offset_x), PowTwo(offset_y))
    IN  IF RootExceeds(sum, Literal08) THEN "shadow"
        ELSE IF RootBelow(sum, Literal03) THEN "outline"
        ELSE "unknown"

detect_spatial_pattern(img, x, y, w, h) ==
    LET pos == SamplePositions(img, x, y, w, h)
        opaque == SelectSeq(pos, LAMBDA p :
                      getpixel(img, p[1], p[2]).ok
                      /\ A(getpixel(img, p[1], p[2]).c) > 100)
        bright_positions == SelectSeq(opaque, LAMBDA p :
                      Brightness(getpixel(img, p[1], p[2]).c) > 150)
        dark_positions == SelectSeq(opaque, LAMBDA p :
                      Brightness(getpixel(img, p[1], p[2]).c) < 100)
        bn == Len(bright_positions)
        dn == Len(dark_positions)
        bsx == SumSeq([i \in DOMAIN bright_positions |-> bright_positions[i][1] - x])
        bsy == SumSeq([i \in DOMAIN bright_positions |-> bright_positions[i][2] - y])
        dsx == SumSeq([i \in DOMAIN dark_positions |-> dark_positions[i][1] - x])
        dsy == SumSeq([i \in DOMAIN dark_positions |-> dark_positions[i][2] - y])
    IN  IF bn = 0 \/ dn = 0 THEN "unknown"
        ELSE SpatialVerdict(FloatSub(FloatDiv(bsx, bn), FloatDiv(dsx, dn)),
                            FloatSub(FloatDiv(bsy, bn), FloatDiv(dsy, dn)))

(***************************************************************************)
(* analyze_font_pattern                                                    *)
(***************************************************************************)
\* the glyph entries the dimension scan looks at
IsGlyphEntry(e) == e.key \notin metadata_keys /\ e.isdict

FontWidths(fd) ==
    LET default_w_set == "w" \in DOMAIN fd.default
        es == SelectSeq(fd.items, LAMBDA e :
                  IsGlyphEntry(e) /\ ("w" \in DOMAIN e.val \/ default_w_set))
    IN  [i \in DOMAIN es |->
            IF "w" \in DOMAIN es[i].val THEN es[i].val["w"] ELSE fd.default["w"]]

FontHeights(fd, height) ==
    LET default_h == Get(fd.default, "h", height)
        es == SelectSeq(fd.items, IsGlyphEntry)
    IN  [i \in DOMAIN es |-> Get(es[i].val, "h", default_h)]

SeqRange(seq) == {seq[i] : i \in DOMAIN seq}

FontIsMonospace(fd) ==
    \/ "w" \in DOMAIN fd.default
    \/ (FontWidths(fd) # <<>> /\ Cardinality(SeqRange(FontWidths(fd))) = 1)

FontMaxWidth(fd, height) ==
    IF FontWidths(fd) # <<>> THEN SetMax(SeqRange(FontWidths(fd)))
    ELSE IF "w" \in DOMAIN fd.default /\ fd.default["w"] # 0 THEN fd.default["w"]
    ELSE height

FontMaxHeight(fd, height) ==
    IF FontHeights(fd, height) # <<>> THEN SetMax(SeqRange(FontHeights(fd, height)))
    ELSE height

\* font_data[key] for a top-level key, as a one-element or empty sequence
Lookup(fd, key) == SelectSeq(fd.items, LAMBDA e : e.key = key)

HasCoordinates(e) == e.isdict /\ "x" \in DOMAIN e.val

\* variant: the digit zero preferred to the lower-case a
SampleChar_DigitFirst(fd) ==
    LET pref(k) == IF Lookup(fd, k) # <<>> /\ HasCoordinates(Lookup(fd, k)[1])
                   THEN Lookup(fd, k) ELSE <<>>
        any == SelectSeq(fd.items, LAMBDA e :
                   e.key \notin metadata_keys /\ HasCoordinates(e))
    IN  IF pref("65") # <<>> THEN pref("65")
        ELSE IF pref("48") # <<>> THEN pref("48")
        ELSE IF pref("97") # <<>> THEN pref("97")
        ELSE IF any # <<>> THEN <<any[1]>>
        ELSE <<>>

\* the sample glyph entry, as a one-element or empty sequence
SampleChar(fd) ==
    LET pref(k) == IF Lookup(fd, k) # <<>> /\ HasCoordinates(Lookup(fd, k)[1])
                   THEN Lookup(fd, k) ELSE <<>>
        any == SelectSeq(fd.items, LAMBDA e :
                   e.key \notin metadata_keys /\ HasCoordinates(e))
    IN  IF pref("65") # <<>> THEN pref("65")
        ELSE IF pref("97") # <<>> THEN pref("97")
        ELSE IF pref("48") # <<>> THEN pref("48")
        ELSE IF any # <<>> THEN <<any[1]>>
        ELSE <<>>

\* variant: a glyph without a width takes the widest glyph's
ResolveRect_WidestGlyph(fd, height, char_data) ==
    [x |-> char_data["x"],
     y |-> Get(char_data, "y", Get(fd.default, "y", 0)),
     w |-> IF "w" \in DOMAIN char_data THEN char_data["w"]
           ELSE IF "w" \in DOMAIN fd.default THEN fd.default["w"]
           ELSE FontMaxWidth(fd, height),
     h |-> Get(char_data, "h", Get(fd.default, "h", height))]

\* the rectangle (x, y, w, h) sampled for a glyph dict
ResolveRect(fd, height, char_data) ==
    [x |-> char_data["x"],
     y |-> Get(char_data, "y", Get(fd.default, "y", 0)),
     w |-> IF "w" \in DOMAIN char_data THEN char_data["w"]
           ELSE IF "w" \in DOMAIN fd.default THEN fd.default["w"]
           ELSE height,
     h |-> Get(char_data, "h", Get(fd.default, "h", height))]

\* the pixels list: RGBA of the visited positions with a > 10
SamplePixels(img, rc) ==
    LET pos == SamplePositions(img, rc.x, rc.y, rc.w, rc.h)
        seen == SelectSeq(pos, LAMBDA p :
                    getpixel(img, p[1], p[2]).ok
                    /\ A(getpixel(img, p[1], p[2]).c) > 10)
    IN  [i \in DOMAIN seen |-> getpixel(img, seen[i][1], seen[i][2]).c]

IsWhite(c) == R(c) > 200 /\ G(c) > 200 /\ B(c) > 200 /\ A(c) > 200
IsBlack(c) == R(c) < 50 /\ G(c) < 50 /\ B(c) < 50 /\ A(c) > 200
IsGray(c) ==
    /\ 50 <= R(c) /\ R(c) <= 200 /\ 50 <= G(c) /\ G(c) <= 200
    /\ 50 <= B(c) /\ B(c) <= 200
    /\ Abs(R(c) - G(c)) < 30 /\ Abs(G(c) - B(c)) < 30 /\ A(c) > 200
IsSemiTransparent(c) == 10 < A(c) /\ A(c) < 240
IsChromatic(c) ==
    A(c) > 200 /\ Max3(Abs(R(c) - G(c)), Abs(G(c) - B(c)), Abs(R(c) - B(c))) > 40

\* the entries of dominant_channels: one per pixel with a > 200 and max_val > 0
HasDominant(c) == A(c) > 200 /\ Brightness(c) > 0
DominantChannel(c) ==
    IF R(c) = Brightness(c) THEN "R" ELSE IF G(c) = Brightness(c) THEN "G" ELSE "B"

ChannelCount(pixels, ch) ==
    Count([i \in DOMAIN pixels |-> HasDominant(pixels[i]) /\ DominantChannel(pixels[i]) = ch])

\* Counter(dominant_channels).most_common(1)[0]; a tie for the first place
\* never passes the dominance test, so the order among ties is immaterial
MostCommon(pixels) ==
    LET n(ch) == ChannelCount(pixels, ch)
    IN  IF n("R") >= n("G") /\ n("R") >= n("B") THEN <<"R", n("R")>>
        ELSE IF n("G") >= n("B") THEN <<"G", n("G")>>
        ELSE <<"B", n("B")>>

\* chromatic_pixels > total * 0.1
ChromaticGate(chromatic_pixels, total) == 10 * chromatic_pixels > total

\* variant: the dominance test with >= 0.8
DominanceTest_AtLeast(count, n) == 5 * count >= 4 * n

\* count / len(dominant_channels) > 0.8
DominanceTest(count, n) == 5 * count > 4 * n

\* variant: the fallback with dark_ratio <= 0.3
FallbackIsShadow_Inclusive(dark_pixels, total) == 10 * dark_pixels <= 3 * total

\* dark_ratio < 0.3 in the fallback of the spatial analysis
FallbackIsShadow(dark_pixels, total) == 10 * dark_pixels < 3 * total

\* 0.2 < white_ratio and 0.2 < black_ratio
OutlinedTest(white_pixels, black_pixels, total) ==
    /\ white_pixels > 0 /\ black_pixels > 0
    /\ 5 * white_pixels > total /\ 5 * black_pixels > total

\* variant: the shadow rule with black_ratio <= 0.3
ShadowedTest_Inclusive(black_pixels, ncolors, total) ==
    black_pixels > 0 /\ ncolors >= 2 /\ 10 * black_pixels <= 3 * total

\* black_pixels > 0 and len(colors) >= 2, then black_ratio < 0.3
ShadowedTest(black_pixels, ncolors, total) ==
    black_pixels > 0 /\ ncolors >= 2 /\ 10 * black_pixels < 3 * total

\* semi_transparent > 0 or gray_pixels > total * 0.2
AntialiasedTest(semi_transparent, gray_pixels, total) ==
    semi_transparent > 0 \/ 5 * gray_pixels > total

\* the three fields every full return carries
Dims(fd, height) ==
    [is_monospace |-> FontIsMonospace(fd),
     max_width |-> FontMaxWidth(fd, height),
     max_height |-> FontMaxHeight(fd, height)]

WithDims(d, fd, height) ==
    [k \in (DOMAIN d) \cup {"is_monospace", "max_width", "max_height"} |->
        IF k \in DOMAIN d THEN d[k] ELSE Dims(fd, height)[k]]

\* the branch taken once chromatic_pixels > total * 0.1
ChromaticBranch(img, rc, pixels, fd, height) ==
    LET total == Len(pixels)
        colors == {<<R(pixels[i]), G(pixels[i]), B(pixels[i])>> : i \in DOMAIN pixels}
        ndom == Count([i \in DOMAIN pixels |-> HasDominant(pixels[i])])
        mc == MostCommon(pixels)
        bright_pixels == Count([i \in DOMAIN pixels |-> A(pixels[i]) > 200 /\ Brightness(pixels[i]) > 150])
        dark_pixels == Count([i \in DOMAIN pixels |-> A(pixels[i]) > 200 /\ Brightness(pixels[i]) <= 150])
        spatial_pattern == detect_spatial_pattern(img, rc.x, rc.y, rc.w, rc.h)
        shadowed == [type |-> "chromatic_shadowed", skip |-> FALSE,
                     dark_ratio |-> Ratio(dark_pixels, total),
                     remove_shadow |-> TRUE, dominant_channel |-> mc[1]]
        outlined == [type |-> "chromatic_outlined", skip |-> FALSE,
                     bright_ratio |-> Ratio(bright_pixels, total),
                     dark_ratio |-> Ratio(dark_pixels, total),
                     remove_outline |-> TRUE, dominant_channel |-> mc[1]]
        multi == [type |-> "multi_color", skip |-> TRUE,
                  unique_colors |-> Cardinality(colors)]
    IN  IF ndom > 0 /\ DominanceTest(mc[2], ndom)
           /\ bright_pixels > 0 /\ dark_pixels > 0
        THEN IF spatial_pattern = "shadow" THEN WithDims(shadowed, fd, height)
             ELSE IF spatial_pattern = "outline" THEN WithDims(outlined, fd, height)
             ELSE IF FallbackIsShadow(dark_pixels, total)
                  THEN WithDims(shadowed, fd, height)
                  ELSE WithDims(outlined, fd, height)
        ELSE WithDims(multi, fd, height)

\* the rules tried when the chromatic gate is closed
AchromaticBranch(pixels, fd, height) ==
    LET total == Len(pixels)
        ncolors == Cardinality(
            {<<R(pixels[i]), G(pixels[i]), B(pixels[i])>> : i \in DOMAIN pixels})
        white_pixels == Count([i \in DOMAIN pixels |-> IsWhite(pixels[i])])
        black_pixels == Count([i \in DOMAIN pixels |-> IsBlack(pixels[i])])
        gray_pixels == Count([i \in DOMAIN pixels |-> IsGray(pixels[i])])
        semi_transparent == Count([i \in DOMAIN pixels |-> IsSemiTransparent(pixels[i])])
    IN  IF OutlinedTest(white_pixels, black_pixels, total)
        THEN WithDims([type |-> "outlined", skip |-> FALSE,
                       white_ratio |-> Ratio(white_pixels, total),
                       black_ratio |-> Ratio(black_pixels, total),
                       remove_outline |-> TRUE], fd, height)
        ELSE IF ShadowedTest(black_pixels, ncolors, total)
        THEN WithDims([type |-> "shadowed", skip |-> FALSE,
                       black_ratio |-> Ratio(black_pixels, total),
                       remove_shadow |-> TRUE], fd, height)
        ELSE IF AntialiasedTest(semi_transparent, gray_pixels, total)
        THEN WithDims([type |-> "antialiased", skip |-> FALSE], fd, height)
        ELSE IF ncolors = 1
        THEN WithDims([type |-> "monochrome_solid", skip |-> FALSE], fd, height)
        ELSE WithDims([type |-> "unknown", skip |-> FALSE], fd, height)

analyze_font_pattern(img, fd, height) ==
    LET sample == SampleChar(fd)
        rc == ResolveRect(fd, height, sample[1].val)
        pixels == SamplePixels(img, rc)
    IN  IF sample = <<>>
        THEN WithDims([type |-> "unknown", skip |-> FALSE], fd, height)
        ELSE IF pixels = <<>>
        THEN [type |-> "unknown", skip |-> FALSE]
        ELSE IF ChromaticGate(Count([i \in DOMAIN pixels |-> IsChromatic(pixels[i])]), Len(pixels))
        THEN ChromaticBranch(img, rc, pixels, fd, height)
        ELSE AchromaticBranch(pixels, fd, height)

(***************************************************************************)
(* extract_glyph_pixels                                                    *)
(***************************************************************************)
threshold == 128

\* pattern['type'] == t, for a pattern that may be None
TypeIs(pat, t) == "type" \in DOMAIN pat /\ pat["type"] = t

\* pattern.get('dark_ratio', 0) >= 0.4
DarkRatioHigh(pat) ==
    "dark_ratio" \in DOMAIN pat /\ 5 * pat["dark_ratio"][1] >= 2 * pat["dark_ratio"][2]

NearBlack(c) == R(c) < 50 /\ G(c) < 50 /\ B(c) < 50

\* variant: the highlight filter does not look at alpha
is_inked_BrightAnyAlpha(c, pat) ==
    IF Truthy(pat, "remove_outline")
    THEN /\ A(c) > threshold
         /\ IF TypeIs(pat, "chromatic_outlined")
            THEN Brightness(c) > 150
            ELSE IF R(c) > 200 /\ G(c) > 200 /\ B(c) > 200 THEN TRUE
            ELSE ~NearBlack(c)
    ELSE IF Truthy(pat, "remove_shadow")
    THEN /\ A(c) > threshold
         /\ IF TypeIs(pat, "chromatic_shadowed_bright")
            THEN Brightness(c) > 150
            ELSE IF TypeIs(pat, "chromatic_shadowed")
            THEN IF DarkRatioHigh(pat) THEN Brightness(c) < 100
                 ELSE Brightness(c) > 150
            ELSE ~NearBlack(c)
    ELSE IF TypeIs(pat, "chromatic_bright")
    THEN ~(Brightness(c) > 180)
    ELSE A(c) > threshold

\* is_inked for a pixel that was read; pat = EmptyDict stands for pattern=None
is_inked(c, pat) ==
    IF Truthy(pat, "remove_outline")
    THEN /\ A(c) > threshold
         /\ IF TypeIs(pat, "chromatic_outlined")
            THEN Brightness(c) > 150
            ELSE IF R(c) > 200 /\ G(c) > 200 /\ B(c) > 200 THEN TRUE
            ELSE ~NearBlack(c)
    ELSE IF Truthy(pat, "remove_shadow")
    THEN /\ A(c) > threshold
         /\ IF TypeIs(pat, "chromatic_shadowed_bright")
            THEN Brightness(c) > 150
            ELSE IF TypeIs(pat, "chromatic_shadowed")
            THEN IF DarkRatioHigh(pat) THEN Brightness(c) < 100
                 ELSE Brightness(c) > 150
            ELSE ~NearBlack(c)
    ELSE IF TypeIs(pat, "chromatic_bright")
    THEN A(c) > threshold /\ ~(Brightness(c) > 180)
    ELSE A(c) > threshold

\* one character of a row: the pixel read and filtered, '.' when the read raises
Cell(img, pixel_x, pixel_y, pat) ==
    LET rd == getpixel(img, pixel_x, pixel_y)
    IN  IF rd.ok THEN (IF is_inked(rd.c, pat) THEN "@" ELSE ".") ELSE "."

\* variant: a row that stops at the right edge of the sheet
RECURSIVE RowFrom_Clipped(_, _, _, _, _, _)
RowFrom_Clipped(img, x, pixel_y, px, width, pat) ==
    IF px >= width \/ x + px >= SizeX(img) THEN ""
    ELSE Cell(img, x + px, pixel_y, pat)
         \o RowFrom_Clipped(img, x, pixel_y, px + 1, width, pat)

RECURSIVE RowFrom(_, _, _, _, _, _)
RowFrom(img, x, pixel_y, px, width, pat) ==
    IF px >= width THEN ""
    ELSE Cell(img, x + px, pixel_y, pat) \o RowFrom(img, x, pixel_y, px + 1, width, pat)

\* variant: the sentinel only when both dimensions are zero
extract_glyph_pixels_BothZero(img, x, y, width, height, pat) ==
    IF width = 0 /\ height = 0 THEN <<"-">>
    ELSE [py \in 1..Max2(height, 0) |-> RowFrom(img, x, y + py - 1, 0, width, pat)]

extract_glyph_pixels(img, x, y, width, height, pat) ==
    IF width = 0 \/ height = 0 THEN <<"-">>
    ELSE [py \in 1..Max2(height, 0) |-> RowFrom(img, x, y + py - 1, 0, width, pat)]

(***************************************************************************)
(* Text conversions used by the emitter                                    *)
(***************************************************************************)
Digits == "0123456789"
HexLower == "0123456789abcdef"
HexUpper == "0123456789ABCDEF"
Lowercase == "abcdefghijklmnopqrstuvwxyz"
Uppercase == "ABCDEFGHIJKLMNOPQRSTUVWXYZ"
\* chr(32) .. chr(95) and chr(97) .. chr(126); the grave accent, chr(96),
\* has no spelling inside a TLA+ string and is written <grave>
PrintableLow ==
    " !\"#$%&'()*+,-./0123456789:;<=>?@ABCDEFGHIJKLMNOPQRSTUVWXYZ[\\]^_"
PrintableHigh == "abcdefghijklmnopqrstuvwxyz{|}~"

CharAt(s, i) == SubSeq(s, i, i)

\* 1-based position of the one-character string ch in s, 0 when absent
IndexOf(s, ch) ==
    IF \E i \in 1..Len(s) : CharAt(s, i) = ch
    THEN CHOOSE i \in 1..Len(s) : CharAt(s, i) = ch
    ELSE 0

\* int(key): an optional sign followed by decimal digits
IsInt(key) ==
    LET body == IF Len(key) > 0 /\ CharAt(key, 1) \in {"-", "+"} THEN Tail(key) ELSE key
    IN  Len(body) > 0 /\ \A i \in 1..Len(body) : IndexOf(Digits, CharAt(body, i)) > 0

RECURSIVE DigitsValue(_)
DigitsValue(s) ==
    IF Len(s) = 0 THEN 0
    ELSE 10 * DigitsValue(SubSeq(s, 1, Len(s) - 1)) + (IndexOf(Digits, CharAt(s, Len(s))) - 1)

ToInt(key) ==
    IF CharAt(key, 1) = "-" THEN 0 - DigitsValue(Tail(key))
    ELSE IF CharAt(key, 1) = "+" THEN DigitsValue(Tail(key))
    ELSE DigitsValue(key)

RECURSIVE HexDigits(_, _)
HexDigits(n, alphabet) ==
    IF n < 16 THEN CharAt(alphabet, n + 1)
    ELSE HexDigits(n \div 16, alphabet) \o CharAt(alphabet, (n % 16) + 1)

RECURSIVE ZeroPad(_, _)
ZeroPad(s, width) == IF Len(s) >= width THEN s ELSE ZeroPad("0" \o s, width)

\* format(n, '04x') and format(n, '04X') for n >= 0
Hex04(n, alphabet) == ZeroPad(HexDigits(n, alphabet), 4)

\* chr(n) for 32 <= n <= 126
chr(n) ==
    IF n <= 95 THEN CharAt(PrintableLow, n - 31)
    ELSE IF n = 96 THEN "<grave>"
    ELSE CharAt(PrintableHigh, n - 96)

\* str.title(): a cased letter is upper case after an uncased character or at
\* the start, lower case after a cased one
RECURSIVE TitleFrom(_, _, _)
TitleFrom(s, i, after_cased) ==
    IF i > Len(s) THEN ""
    ELSE LET ch == CharAt(s, i)
             lo == IndexOf(Lowercase, ch)
             up == IndexOf(Uppercase, ch)
             cased == lo > 0 \/ up > 0
             k == IF lo > 0 THEN lo ELSE up
             out == IF ~cased THEN ch
                    ELSE IF after_cased THEN CharAt(Lowercase, k)
                    ELSE CharAt(Uppercase, k)
         IN  out \o TitleFrom(s, i + 1, cased)

Title(s) == TitleFrom(s, 1, FALSE)

\* str.replace('_', ' ')
RECURSIVE ReplaceUnderscore(_)
ReplaceUnderscore(s) ==
    IF Len(s) = 0 THEN ""
    ELSE (IF CharAt(s, 1) = "_" THEN " " ELSE CharAt(s, 1)) \o ReplaceUnderscore(Tail(s))

\* format(n, '04x'): the sign counts in the width
Format04(n, alphabet) ==
    IF n >= 0 THEN Hex04(n, alphabet)
    ELSE "-" \o ZeroPad(HexDigits(0 - n, alphabet), 3)

RECURSIVE Join(_, _)
Join(sep, seq) ==
    IF seq = <<>> THEN ""
    ELSE IF Len(seq) = 1 THEN seq[1]
    ELSE seq[1] \o sep \o Join(sep, Tail(seq))

RECURSIVE Concat(_)
Concat(seqs) == IF seqs = <<>> THEN <<>> ELSE Head(seqs) \o Concat(Tail(seqs))

(***************************************************************************)
(* analyze_character_coverage                                              *)
(***************************************************************************)
Codepoints(fd) ==
    {get_unicode_codepoint(ToInt(fd.items[i].key)) :
        i \in {j \in DOMAIN fd.items :
                  IsGlyphEntry(fd.items[j]) /\ IsInt(fd.items[j].key)}}

\* variant: the lower end of a range left out
InRange_OpenLow(S, lo, hi) == Cardinality({cp \in S : lo < cp /\ cp <= hi})

InRange(S, lo, hi) == Cardinality({cp \in S : lo <= cp /\ cp <= hi})

analyze_character_coverage(fd) ==
    LET cps == Codepoints(fd)
        has_uppercase == InRange(cps, 65, 90) > 0
        has_lowercase == InRange(cps, 97, 122) > 0
        kana_count == InRange(cps, 12352, 12447) + InRange(cps, 12448, 12543)
        symbols_count ==
            Cardinality({cp \in cps :
                \/ (8592 <= cp /\ cp <= 8703) \/ (8704 <= cp /\ cp <= 8959)
                \/ (8960 <= cp /\ cp <= 9215) \/ (9632 <= cp /\ cp <= 9727)})
        lab(cond, name) == IF cond THEN <<name>> ELSE <<>>
    IN  IF cps = {} THEN <<>>
        ELSE lab(InRange(cps, 32, 126) >= 90, "ascii")
             \o lab(InRange(cps, 160, 255) >= 20, "latin1")
             \o lab(InRange(cps, 256, 591) >= 20, "latinext")
             \o lab(InRange(cps, 1024, 1279) >= 10, "cyrillic")
             \o lab(InRange(cps, 880, 1023) >= 5, "greek")
             \o lab(kana_count >= 10, "kana")
             \o lab(InRange(cps, 12544, 12591) >= 10, "bopomofo")
             \o lab(InRange(cps, 9472, 9599) >= 20, "boxdraw")
             \o lab(symbols_count >= 10, "symbols")
             \o lab(has_uppercase /\ ~has_lowercase, "upper")

(***************************************************************************)
(* generate_font_section                                                   *)
(***************************************************************************)
\* the chars list before sorting: (decimal_code, char_data) in document order
CharEntries(fd) ==
    LET es == SelectSeq(fd.items, LAMBDA e :
                  e.key \notin metadata_keys /\ HasCoordinates(e) /\ IsInt(e.key))
    IN  [i \in DOMAIN es |-> [code |-> ToInt(es[i].key), val |-> es[i].val]]

\* list.sort(key=decimal_code): stable
RECURSIVE InsertSorted(_, _)
InsertSorted(sorted, e) ==
    IF sorted = <<>> THEN <<e>>
    ELSE IF sorted[Len(sorted)].code <= e.code THEN Append(sorted, e)
    ELSE Append(InsertSorted(SubSeq(sorted, 1, Len(sorted) - 1), e), sorted[Len(sorted)])

RECURSIVE SortChars(_)
SortChars(seq) ==
    IF seq = <<>> THEN <<>>
    ELSE InsertSorted(SortChars(SubSeq(seq, 1, Len(seq) - 1)), seq[Len(seq)])

\* variant: shift-up also written for a glyph as tall as the font
GlyphLines_ShiftWhenEqual(img, fd, height, pat, ch) ==
    LET rc == ResolveRect(fd, height, ch.val)
        unicode_code == get_unicode_codepoint(ch.code)
        glyph_rows == extract_glyph_pixels(img, rc.x, rc.y, rc.w, rc.h, pat)
        has_shift == rc.h <= height
        has_rb == "right-bearing" \in DOMAIN ch.val
    IN  <<"# Character: " \o (IF 32 <= unicode_code /\ unicode_code <= 126
                              THEN chr(unicode_code)
                              ELSE "U+" \o Format04(unicode_code, HexUpper)),
          "u+" \o Format04(unicode_code, HexLower) \o ":">>
        \o [i \in DOMAIN glyph_rows |-> "    " \o glyph_rows[i]]
        \o (IF has_shift \/ has_rb THEN <<"">> ELSE <<>>)
        \o (IF has_shift THEN <<"    shift-up: " \o ToString(height - rc.h)>> ELSE <<>>)
        \o (IF has_rb
            THEN <<"    right-bearing: " \o ToString(ch.val["right-bearing"])>>
            ELSE <<>>)
        \o <<"">>

\* the lines of one glyph block
GlyphLines(img, fd, height, pat, ch) ==
    LET rc == ResolveRect(fd, height, ch.val)
        unicode_code == get_unicode_codepoint(ch.code)
        glyph_rows == extract_glyph_pixels(img, rc.x, rc.y, rc.w, rc.h, pat)
        has_shift == rc.h < height
        has_rb == "right-bearing" \in DOMAIN ch.val
    IN  <<"# Character: " \o (IF 32 <= unicode_code /\ unicode_code <= 126
                              THEN chr(unicode_code)
                              ELSE "U+" \o Format04(unicode_code, HexUpper)),
          "u+" \o Format04(unicode_code, HexLower) \o ":">>
        \o [i \in DOMAIN glyph_rows |-> "    " \o glyph_rows[i]]
        \o (IF has_shift \/ has_rb THEN <<"">> ELSE <<>>)
        \o (IF has_shift THEN <<"    shift-up: " \o ToString(height - rc.h)>> ELSE <<>>)
        \o (IF has_rb
            THEN <<"    right-bearing: " \o ToString(ch.val["right-bearing"])>>
            ELSE <<>>)
        \o <<"">>

\* variant: every entry of the table is counted
generate_font_section_CountsAll(img, fd, height, pat) ==
    LET chars == SortChars(CharEntries(fd))
    IN  [lines |-> Concat([i \in DOMAIN chars |-> GlyphLines(img, fd, height, pat, chars[i])]),
         count |-> Len(fd.items)]

\* returns (yaff_lines, len(chars))
generate_font_section(img, fd, height, pat) ==
    LET chars == SortChars(CharEntries(fd))
    IN  [lines |-> Concat([i \in DOMAIN chars |-> GlyphLines(img, fd, height, pat, chars[i])]),
         count |-> Len(chars)]

(***************************************************************************)
(* load_game_metadata and write_single_yaff                                *)
(***************************************************************************)
\* the table load_game_metadata returns, given the cache and the file
LoadedMetadata(cache, js) ==
    IF cache # <<>> THEN cache[1]
    ELSE IF js # <<>> THEN js[1]
    ELSE EmptyDict

\* the lines write_single_yaff writes
YaffLines(img, fd, font_name, family_name, height, jf, pf, pat, game_metadata) ==
    LET game_title == Get(game_metadata, "title", font_name)
        opt(k, label) == IF k \in DOMAIN game_metadata
                         THEN <<label \o game_metadata[k]>> ELSE <<>>
    IN  <<"# YAFF font file",
          "# Converted from " \o jf \o " and " \o pf>>
        \o (IF DOMAIN game_metadata # {}
            THEN <<"# Source game: " \o game_title>>
                 \o (IF "year" \in DOMAIN game_metadata
                     THEN <<"# Year: " \o ToString(game_metadata["year"])>> ELSE <<>>)
                 \o opt("source", "# Publisher: ")
                 \o opt("platform", "# Platform: ")
            ELSE <<>>)
        \o (IF "type" \in DOMAIN pat /\ pat["type"] # ""
            THEN <<"# Font type: " \o pat["type"]>> ELSE <<>>)
        \o <<"", "yaff: 1.0", "name: " \o game_title, "family: " \o family_name,
             "encoding: unicode">>
        \o (IF "source" \in DOMAIN game_metadata /\ game_metadata["source"] # ""
            THEN <<"copyright: " \o game_metadata["source"]>> ELSE <<>>)
        \o <<"", "# Global metrics">>
        \o (IF height # 0 THEN <<"pixel-size: " \o ToString(height)>> ELSE <<>>)
        \o <<"", "# Glyph definitions", "">>
        \o generate_font_section(img, fd, height, pat).lines

(***************************************************************************)
(* generate_yaff                                                           *)
(***************************************************************************)
\* font_data.get('height', 13); subfont_data.get('height', height)
DefaultHeight == 13
GlobalHeight(fd) == Get(fd.top, "height", DefaultHeight)
SubfontHeight(fd, i) == Get(fd.subfonts[i].data.top, "height", GlobalHeight(fd))

base_font_name(name) == Title(ReplaceUnderscore(name))
json_filename(name) == name \o ".json"
png_filename(name) == name \o "-font.png"

KeepAllTypes == {"antialiased", "unknown", "chromatic_bright"}
ShadowTypes == {"shadowed", "chromatic_shadowed", "chromatic_shadowed_bright"}
OutlineTypes == {"outlined", "chromatic_outlined"}

SetFlags(pat, remove_shadow, remove_outline) ==
    Put(Put(pat, "remove_shadow", remove_shadow), "remove_outline", remove_outline)

\* variant: the override builds a new classification of the forced type
OverrideMainPattern_Fresh(pat, key) ==
    IF key \in DOMAIN FONT_TYPE_OVERRIDES
    THEN SetFlags([type |-> FONT_TYPE_OVERRIDES[key], skip |-> FALSE], FALSE, FALSE)
    ELSE pat

\* the override block of the main font
OverrideMainPattern(pat, key) ==
    IF key \in DOMAIN FONT_TYPE_OVERRIDES
    THEN LET override_type == FONT_TYPE_OVERRIDES[key]
             forced == Put(pat, "type", override_type)
         IN  IF override_type \in KeepAllTypes THEN SetFlags(forced, FALSE, FALSE)
             ELSE IF override_type \in ShadowTypes THEN SetFlags(forced, TRUE, FALSE)
             ELSE IF override_type \in OutlineTypes THEN SetFlags(forced, FALSE, TRUE)
             ELSE forced
    ELSE pat

\* the override block of a subfont
OverrideSubfontPattern(pat, key) ==
    IF key \in DOMAIN FONT_TYPE_OVERRIDES
    THEN LET override_type == FONT_TYPE_OVERRIDES[key]
             forced == Put(pat, "type", override_type)
         IN  IF override_type \in {"antialiased", "unknown"}
             THEN SetFlags(forced, FALSE, FALSE)
             ELSE forced
    ELSE pat

subfont_key(name, subfont_name) == name \o "-" \o subfont_name

\* f"{id}{label_suffix}{dim_suffix}.yaff"
OutputName(id, fd, pat, height) ==
    LET coverage_labels == analyze_character_coverage(fd)
        label_suffix == IF coverage_labels # <<>>
                        THEN "_" \o Join("_", coverage_labels) ELSE ""
        is_monospace == Get(pat, "is_monospace", FALSE)
        max_width == Get(pat, "max_width", height)
        max_height == Get(pat, "max_height", height)
        dim_suffix == IF is_monospace
                      THEN "_" \o ToString(max_height) \o "x" \o ToString(max_width)
                      ELSE "_" \o ToString(max_height)
    IN  id \o label_suffix \o dim_suffix \o ".yaff"

\* variant: an empty table is not kept, so the next call loads again
WriteSingleYaff_EmptyNotKept(path, fd, font_name, family_name, height, pat, sub) ==
    LET db == LoadedMetadata(metadata_cache, generators_js)
        game_metadata == Get(db, game_name, EmptyDict)
    IN  /\ metadata_cache' = IF db = EmptyDict THEN <<>> ELSE <<db>>
        /\ reads' = IF metadata_cache = <<>> THEN reads + 1 ELSE reads
        /\ files' = Append(files,
               [path |-> path, sub |-> sub, pattern |-> pat,
                lines |-> YaffLines(image, fd, font_name, family_name, height,
                                    json_filename(game_name), png_filename(game_name),
                                    pat, game_metadata)])

\* write_single_yaff: loads the metadata (once), builds the lines, writes them
WriteSingleYaff(path, fd, font_name, family_name, height, pat, sub) ==
    LET db == LoadedMetadata(metadata_cache, generators_js)
        game_metadata == Get(db, game_name, EmptyDict)
    IN  /\ metadata_cache' = <<db>>
        /\ reads' = IF metadata_cache = <<>> THEN reads + 1 ELSE reads
        /\ files' = Append(files,
               [path |-> path, sub |-> sub, pattern |-> pat,
                lines |-> YaffLines(image, fd, font_name, family_name, height,
                                    json_filename(game_name), png_filename(game_name),
                                    pat, game_metadata)])

AnalyzeMain ==
    /\ pc = "analyze_main"
    /\ pattern' = analyze_font_pattern(image, font_data, GlobalHeight(font_data))
    /\ auto_pattern' = pattern'
    /\ pc' = "override_main"
    /\ UNCHANGED <<game_name, image, font_data, negative_wraps, libm_pow, batch, generators_js,
                   sub_i, files, skipped, metadata_cache, reads, arg, ret>>

OverrideMain ==
    /\ pc = "override_main"
    /\ pattern' = OverrideMainPattern(pattern, game_name)
    /\ pc' = "skip_main"
    /\ UNCHANGED <<game_name, image, font_data, negative_wraps, libm_pow, batch, generators_js,
                   auto_pattern, sub_i, files, skipped, metadata_cache, reads,
                   arg, ret>>

SkipMain ==
    /\ pc = "skip_main"
    /\ Truthy(pattern, "skip")
    /\ skipped' = Append(skipped, game_name)
    /\ pc' = "done"
    /\ UNCHANGED <<game_name, image, font_data, negative_wraps, libm_pow, batch, generators_js,
                   pattern, auto_pattern, sub_i, files, metadata_cache, reads,
                   arg, ret>>

WriteMain ==
    /\ pc = "skip_main"
    /\ ~Truthy(pattern, "skip")
    /\ WriteSingleYaff(
           OutputName(game_name, font_data, pattern, GlobalHeight(font_data)),
           font_data, base_font_name(game_name) \o " Font", game_name,
           GlobalHeight(font_data), pattern, 0)
    /\ sub_i' = 1
    /\ pc' = "analyze_sub"
    /\ UNCHANGED <<game_name, image, font_data, negative_wraps, libm_pow, batch, generators_js,
                   pattern, auto_pattern, skipped, arg, ret>>

AnalyzeSub ==
    /\ pc = "analyze_sub"
    /\ sub_i <= Len(font_data.subfonts)
    /\ pattern' = analyze_font_pattern(image, font_data.subfonts[sub_i].data,
                                       SubfontHeight(font_data, sub_i))
    /\ auto_pattern' = pattern'
    /\ pc' = "override_sub"
    /\ UNCHANGED <<game_name, image, font_data, negative_wraps, libm_pow, batch, generators_js,
                   sub_i, files, skipped, metadata_cache, reads, arg, ret>>

OverrideSub ==
    /\ pc = "override_sub"
    /\ pattern' = OverrideSubfontPattern(
                      pattern, subfont_key(game_name, font_data.subfonts[sub_i].name))
    /\ pc' = "skip_sub"
    /\ UNCHANGED <<game_name, image, font_data, negative_wraps, libm_pow, batch, generators_js,
                   auto_pattern, sub_i, files, skipped, metadata_cache, reads,
                   arg, ret>>

SkipSub ==
    /\ pc = "skip_sub"
    /\ Truthy(pattern, "skip")
    /\ skipped' = Append(skipped, subfont_key(game_name, font_data.subfonts[sub_i].name))
    /\ sub_i' = sub_i + 1
    /\ pc' = "analyze_sub"
    /\ UNCHANGED <<game_name, image, font_data, negative_wraps, libm_pow, batch, generators_js,
                   pattern, auto_pattern, files, metadata_cache, reads, arg, ret>>

WriteSub ==
    /\ pc = "skip_sub"
    /\ ~Truthy(pattern, "skip")
    /\ LET sf == font_data.subfonts[sub_i]
           id == subfont_key(game_name, sf.name)
       IN  WriteSingleYaff(
               OutputName(id, sf.data, pattern, SubfontHeight(font_data, sub_i)),
               sf.data, base_font_name(game_name) \o " " \o Title(sf.name), id,
               SubfontHeight(font_data, sub_i), pattern, sub_i)
    /\ sub_i' = sub_i + 1
    /\ pc' = "analyze_sub"
    /\ UNCHANGED <<game_name, image, font_data, negative_wraps, libm_pow, batch, generators_js,
                   pattern, auto_pattern, skipped, arg, ret>>

Finish ==
    /\ pc = "analyze_sub"
    /\ sub_i > Len(font_data.subfonts)
    /\ pc' = "done"
    /\ UNCHANGED <<game_name, image, font_data, negative_wraps, libm_pow, batch, generators_js,
                   pattern, auto_pattern, sub_i, files, skipped, metadata_cache,
                   reads, arg, ret>>

(***************************************************************************)
(* Inputs of generate_yaff                                                 *)
(***************************************************************************)
Clear == <<0, 0, 0, 0>>
White == <<255, 255, 255, 255>>
Black == <<0, 0, 0, 255>>
Gray == <<128, 128, 128, 255>>
OffWhite == <<210, 210, 190, 255>>
BrightRed == <<255, 0, 0, 255>>
DarkRed == <<90, 0, 0, 255>>
MidRed == <<140, 0, 0, 255>>
Green == <<0, 200, 0, 255>>
Semi == <<255, 255, 255, 200>>
Faint == <<0, 0, 0, 128>>

GameNames == {"mw", "nesticle", "smrpg", "wof", "zelda"}
SubfontNames == <<"red", "small">>

SheetPalette == {Clear, White, Black, BrightRed}

\* one-row sheets of ImgW pixels
Sheets == {<<row>> : row \in [1..ImgW -> SheetPalette]}

\* glyph rectangles at the left of the sheet; the widest reach past a narrow sheet
GlyphDicts == [x : 0..1, w : 1..MaxGlyphW]

OneGlyphFont(g, subs) ==
    [top |-> [height |-> 1], default |-> EmptyDict,
     items |-> <<[key |-> "65", isdict |-> TRUE, val |-> g]>>,
     subfonts |-> subs]

\* the first n subfont names, each with a one-glyph table
RECURSIVE SubfontLists(_)
SubfontLists(n) ==
    IF n = 0 THEN {<<>>}
    ELSE LET shorter == SubfontLists(n - 1)
         IN  shorter \cup
             {Append(l, [name |-> SubfontNames[((n - 1) % Len(SubfontNames)) + 1]
                                  \o (IF n > Len(SubfontNames) THEN ToString(n) ELSE ""),
                         data |-> OneGlyphFont(g, <<>>)]) :
                 l \in {m \in shorter : Len(m) = n - 1}, g \in GlyphDicts}

Fonts == {OneGlyphFont(g, subs) : g \in GlyphDicts, subs \in SubfontLists(MaxSubfonts)}

MetadataFiles ==
    {<<>>, <<[mw |-> [title |-> "Mechwarrior", year |-> 1989, source |-> "Activision"]]>>}

Init ==
    /\ game_name \in GameNames
    /\ image \in Sheets
    /\ font_data \in Fonts
    /\ negative_wraps \in BOOLEAN
    /\ libm_pow = "nearest"   \* no drawn sheet has a centroid distance near a threshold
    /\ batch = NoBatch
    /\ generators_js \in MetadataFiles
    /\ pc = "analyze_main"
    /\ pattern = EmptyDict
    /\ auto_pattern = EmptyDict
    /\ sub_i = 0
    /\ files = <<>>
    /\ skipped = <<>>
    /\ metadata_cache = <<>>
    /\ reads = 0
    /\ arg = EmptyDict
    /\ ret = EmptyDict

Next ==
    \/ AnalyzeMain
    \/ OverrideMain
    \/ SkipMain
    \/ WriteMain
    \/ AnalyzeSub
    \/ OverrideSub
    \/ SkipSub
    \/ WriteSub
    \/ Finish

Spec == Init /\ [][Next]_vars

(***************************************************************************)
(* Reading a written document back                                         *)
(***************************************************************************)
\* the lines after the "# Glyph definitions" heading and its blank line
GlyphSection(lines) ==
    LET i == CHOOSE j \in DOMAIN lines : lines[j] = "# Glyph definitions"
    IN  SubSeq(lines, i + 2, Len(lines))

\* a glyph block starts at its "# Character: ..." comment
BlockStarts(sec) == {i \in DOMAIN sec : Len(sec[i]) > 0 /\ CharAt(sec[i], 1) = "#"}

NthStart(sec, k) ==
    CHOOSE i \in BlockStarts(sec) : Cardinality({j \in BlockStarts(sec) : j < i}) = k - 1

\* the first blank line after the codepoint tag closes the ink rows
RowsEnd(sec, s) ==
    CHOOSE e \in (s + 2)..Len(sec) :
        sec[e] = "" /\ \A j \in (s + 2)..(e - 1) : sec[j] # ""

\* the ink rows of the k-th block, without their four-space indent
BlockRows(sec, k) ==
    LET s == NthStart(sec, k)
    IN  [j \in 1..(RowsEnd(sec, s) - s - 2) |-> SubSeq(sec[s + 1 + j], 5, Len(sec[s + 1 + j]))]

BlockTag(sec, k) == sec[NthStart(sec, k) + 1]

\* the font table and global height a written file was generated from
FileFont(f) == IF f.sub = 0 THEN font_data ELSE font_data.subfonts[f.sub].data
FileHeight(f) == IF f.sub = 0 THEN GlobalHeight(font_data) ELSE SubfontHeight(font_data, f.sub)

InBounds(img, px, py) == px >= 0 /\ px < SizeX(img) /\ py >= 0 /\ py < SizeY(img)

(***************************************************************************)
(* Claims about generate_yaff                                              *)
(***************************************************************************)
PastMainDecision == pc \in {"analyze_sub", "override_sub", "skip_sub", "done"}

HasMainDocumentOfType(t) ==
    \E i \in DOMAIN files :
        /\ files[i].sub = 0
        /\ \E j \in DOMAIN files[i].lines : files[i].lines[j] = "# Font type: " \o t

\* C1: once generate_yaff is past the main font, a font id with an entry in
\* the override table has a main-font document whose header carries
\* '# Font type: <forced type>', whatever the automatic classification was.
C1_OverrideEmitsForcedType ==
    (PastMainDecision /\ game_name \in DOMAIN FONT_TYPE_OVERRIDES)
        => HasMainDocumentOfType(FONT_TYPE_OVERRIDES[game_name])

\* the override key of the (sub)font whose skip decision is pending
PendingKey ==
    IF pc = "skip_main" THEN game_name
    ELSE subfont_key(game_name, font_data.subfonts[sub_i].name)

FamilyFlags(t) ==
    IF t \in ShadowTypes THEN <<TRUE, FALSE>>
    ELSE IF t \in OutlineTypes THEN <<FALSE, TRUE>>
    ELSE <<FALSE, FALSE>>

\* C2: after an override was applied, to the main font or to a subfont, the
\* two removal flags are those of the forced type's family, whatever flags
\* the automatic classification had set.
C2_OverrideFlagsByFamily ==
    (pc \in {"skip_main", "skip_sub"} /\ PendingKey \in DOMAIN FONT_TYPE_OVERRIDES)
        => <<Truthy(pattern, "remove_shadow"), Truthy(pattern, "remove_outline")>>
               = FamilyFlags(FONT_TYPE_OVERRIDES[PendingKey])

\* C3: where generate_yaff decides whether to skip a font or subfont, the
\* skip flag is true if and only if the type is multi_color.
C3_SkipIffMultiColor ==
    pc \in {"skip_main", "skip_sub"}
        => (Truthy(pattern, "skip") <=> pattern["type"] = "multi_color")

\* the classification a subfont gets on its own: analysis, then its override
OwnSubfontPattern(i) ==
    OverrideSubfontPattern(
        analyze_font_pattern(image, font_data.subfonts[i].data, SubfontHeight(font_data, i)),
        subfont_key(game_name, font_data.subfonts[i].name))

\* C4: when generate_yaff has finished, every subfont whose own
\* classification is not skipped has its document written, whether the main
\* font was emitted or skipped and whatever happened to earlier subfonts.
C4_SubfontsIndependent ==
    pc = "done"
        => \A i \in DOMAIN font_data.subfonts :
               ~Truthy(OwnSubfontPattern(i), "skip")
                   => \E k \in DOMAIN files : files[k].sub = i

\* the ink predicate of a classification type (pattern=None has no type)
InkByType(pat, c) ==
    LET t == Get(pat, "type", "none")
    IN  IF t \in {"outlined", "shadowed"} THEN ~NearBlack(c)
        ELSE IF t \in {"chromatic_outlined", "chromatic_shadowed_bright"}
        THEN Brightness(c) > 150
        ELSE IF t = "chromatic_shadowed"
        THEN IF DarkRatioHigh(pat) THEN Brightness(c) < 100 ELSE Brightness(c) > 150
        ELSE IF t = "chromatic_bright" THEN Brightness(c) <= 180
        ELSE TRUE

\* every in-bounds cell with alpha > 128 of every glyph of a document is ink
\* exactly when the predicate of the document's classification type holds
DocumentInkByType(f) ==
    LET fd == FileFont(f)
        chars == SortChars(CharEntries(fd))
        sec == GlyphSection(f.lines)
    IN  \A k \in DOMAIN chars :
            LET rc == ResolveRect(fd, FileHeight(f), chars[k].val)
            IN  \A py \in 0..(rc.h - 1) : \A px \in 0..(rc.w - 1) :
                    (InBounds(image, rc.x + px, rc.y + py)
                     /\ A(image[rc.y + py + 1][rc.x + px + 1]) > threshold)
                        => (CharAt(BlockRows(sec, k)[py + 1], px + 1) = "@"
                            <=> InkByType(f.pattern, image[rc.y + py + 1][rc.x + px + 1]))

\* C5: for every classification that reaches extract_glyph_pixels and every
\* in-bounds pixel with alpha > 128, the cell is ink exactly when the ink
\* predicate selected by the classification's type holds.
C5_InkPredicateByType == \A i \in DOMAIN files : DocumentInkByType(files[i])

(***************************************************************************)
(* extract_glyph_pixels applied to drawn arguments                         *)
(***************************************************************************)
Idle ==
    /\ game_name = "zelda"
    /\ generators_js = <<>>
    /\ pattern = EmptyDict
    /\ auto_pattern = EmptyDict
    /\ sub_i = 0
    /\ files = <<>>
    /\ skipped = <<>>
    /\ metadata_cache = <<>>
    /\ reads = 0
    /\ ret = EmptyDict

PlainFont == OneGlyphFont([x |-> 0, w |-> 1], <<>>)

\* classifications handed to the extractor: none, and every type with no
\* flag, with either removal flag, and with a recorded dark ratio
ExtractPatterns ==
    {EmptyDict}
    \cup {[type |-> t] : t \in FontTypes}
    \cup {[type |-> t, remove_shadow |-> TRUE, remove_outline |-> FALSE] : t \in FontTypes}
    \cup {[type |-> t, remove_shadow |-> FALSE, remove_outline |-> TRUE] : t \in FontTypes}
    \cup {[type |-> "chromatic_shadowed", remove_shadow |-> TRUE, dark_ratio |-> r] :
             r \in {<<1, 4>>, <<2, 5>>, <<1, 2>>}}

InitExtract ==
    /\ Idle
    /\ image \in Sheets
    /\ font_data = PlainFont
    /\ negative_wraps \in BOOLEAN
    /\ libm_pow = "nearest"
    /\ batch = NoBatch
    /\ arg \in [x : (0 - 1)..ImgW, y : (0 - 1)..1, w : 0..MaxRect, h : 0..MaxRect,
                pat : ExtractPatterns]
    /\ pc = "call_extract"

ApplyExtract ==
    /\ pc = "call_extract"
    /\ ret' = extract_glyph_pixels(image, arg.x, arg.y, arg.w, arg.h, arg.pat)
    /\ pc' = "returned"
    /\ UNCHANGED <<game_name, image, font_data, negative_wraps, libm_pow, batch, generators_js,
                   pattern, auto_pattern, sub_i, files, skipped, metadata_cache,
                   reads, arg>>

SpecExtract == InitExtract /\ [][ApplyExtract]_vars

\* C6: extract_glyph_pixels called with width = 0 or height = 0 returns
\* exactly the one-element sentinel ["-"], for every image, position and
\* classification.
C6_ZeroAreaSentinel ==
    (pc = "returned" /\ (arg.w = 0 \/ arg.h = 0)) => ret = <<"-">>

\* a zero-width call with a positive height, under a classification, returned
C6_Witness ==
    /\ pc = "returned" /\ arg.w = 0 /\ arg.h > 0 /\ arg.pat # EmptyDict
    /\ ret = <<"-">>

(***************************************************************************)
(* generate_font_section applied to drawn font tables                      *)
(***************************************************************************)
SectionPalette == {Clear, White, Black}
SectionSheets == {<<row>> : row \in [1..ImgW -> SectionPalette]}

\* glyph dicts: x at, left of or right of the sheet's first column; y, w, h
\* optional, w and h from 0 (zero area) to MaxRect (past a narrow sheet)
OptionalFields(S) == UNION {[D -> S] : D \in SUBSET {"w", "h"}}

SectionGlyphs ==
    {[k \in {"x"} \cup DOMAIN yd \cup DOMAIN wh |->
         IF k = "x" THEN gx ELSE IF k = "y" THEN yd[k] ELSE wh[k]] :
        gx \in (0 - 1)..1,
        yd \in {EmptyDict} \cup {[y |-> v] : v \in {0 - 1, 1}},
        wh \in OptionalFields(0..MaxRect)}

SectionDefaults == {EmptyDict, [w |-> 1], [h |-> 1, y |-> 1]}

Entry(key, val) == [key |-> key, isdict |-> TRUE, val |-> val]

\* one drawn glyph alone, or listed before a glyph that resolves by defaults
SectionFonts ==
    {[top |-> [height |-> 2], default |-> d, items |-> its, subfonts |-> <<>>] :
        d \in SectionDefaults,
        its \in {<<Entry("65", g)>> : g \in SectionGlyphs}
                \cup {<<Entry("66", g), Entry("65", [x |-> 0])>> : g \in SectionGlyphs}}

SectionPatterns ==
    {EmptyDict, [type |-> "outlined", skip |-> FALSE, remove_outline |-> TRUE]}

InitSection ==
    /\ Idle
    /\ image \in SectionSheets
    /\ font_data \in SectionFonts
    /\ negative_wraps \in BOOLEAN
    /\ libm_pow = "nearest"
    /\ batch = NoBatch
    /\ arg \in [pat : SectionPatterns]
    /\ pc = "call_section"

ApplySection ==
    /\ pc = "call_section"
    /\ ret' = generate_font_section(image, font_data, GlobalHeight(font_data), arg.pat)
    /\ pc' = "returned"
    /\ UNCHANGED <<game_name, image, font_data, negative_wraps, libm_pow, batch, generators_js,
                   pattern, auto_pattern, sub_i, files, skipped, metadata_cache,
                   reads, arg>>

SpecSection == InitSection /\ [][ApplySection]_vars

\* the glyph entries of the table in ascending code order (the codes drawn
\* are distinct)
SectionCodes == {ToInt(font_data.items[i].key) : i \in DOMAIN font_data.items}
KthEntry(k) ==
    LET code == CHOOSE c \in SectionCodes :
                    Cardinality({d \in SectionCodes : d < c}) = k - 1
    IN  (CHOOSE i \in DOMAIN font_data.items : ToInt(font_data.items[i].key) = code)

\* resolved width: own w, else default w, else global height
ClaimedWidth(g) ==
    IF "w" \in DOMAIN g THEN g["w"]
    ELSE IF "w" \in DOMAIN font_data.default THEN font_data.default["w"]
    ELSE GlobalHeight(font_data)

\* resolved height: own h, else default h, else global height
ClaimedHeight(g) ==
    IF "h" \in DOMAIN g THEN g["h"]
    ELSE IF "h" \in DOMAIN font_data.default THEN font_data.default["h"]
    ELSE GlobalHeight(font_data)

ClaimedX(g) == g["x"]
ClaimedY(g) ==
    IF "y" \in DOMAIN g THEN g["y"]
    ELSE IF "y" \in DOMAIN font_data.default THEN font_data.default["y"]
    ELSE 0

IsInkRow(row, width) ==
    /\ Len(row) = width
    /\ \A i \in 1..Len(row) : CharAt(row, i) \in {"@", "."}

\* C7: every glyph emitted by generate_font_section whose resolved rectangle
\* has width > 0 and height > 0 has as many ink rows as its resolved height,
\* each of exactly resolved-width characters '@' or '.', also when the
\* rectangle extends past the image.
C7_RowsMatchResolvedRect ==
    pc = "returned" =>
        \A k \in 1..Len(font_data.items) :
            LET g == font_data.items[KthEntry(k)].val
                rows == BlockRows(ret.lines, k)
            IN  (ClaimedWidth(g) > 0 /\ ClaimedHeight(g) > 0)
                    => /\ Len(rows) = ClaimedHeight(g)
                       /\ \A j \in DOMAIN rows : IsInkRow(rows[j], ClaimedWidth(g))

\* a glyph with neither own nor default width (so as wide as the global
\* height) that reaches past the right edge of the sheet was emitted
C7_Witness ==
    /\ pc = "returned"
    /\ \E k \in 1..Len(font_data.items) :
           LET g == font_data.items[KthEntry(k)].val
           IN  /\ "w" \notin DOMAIN g /\ "w" \notin DOMAIN font_data.default
               /\ ClaimedHeight(g) > 0
               /\ ClaimedX(g) + ClaimedWidth(g) > SizeX(image)
               /\ Len(BlockRows(ret.lines, k)) = ClaimedHeight(g)

\* C8: every cell of a glyph rectangle whose pixel coordinate lies outside
\* the sprite sheet, beyond any of its four edges, is emitted as '.', and
\* every glyph of the table is still emitted.
C8_OutsideIsNotInk ==
    pc = "returned" =>
        /\ ret.count = Len(font_data.items)
        /\ Cardinality(BlockStarts(ret.lines)) = Len(font_data.items)
        /\ \A k \in 1..Len(font_data.items) :
               LET g == font_data.items[KthEntry(k)].val
                   rows == BlockRows(ret.lines, k)
               IN  (ClaimedWidth(g) > 0 /\ ClaimedHeight(g) > 0)
                       => \A py \in 0..(ClaimedHeight(g) - 1) :
                              \A px \in 0..(ClaimedWidth(g) - 1) :
                                  ~InBounds(image, ClaimedX(g) + px, ClaimedY(g) + py)
                                      => CharAt(rows[py + 1], px + 1) = "."

(***************************************************************************)
(* analyze_font_pattern applied to drawn samples                           *)
(***************************************************************************)
ClassifyPalette ==
    <<Clear, White, Black, Gray, OffWhite, Semi, BrightRed, DarkRed, Green>>

\* the non-decreasing sequences of n indices into the palette, from index lo
RECURSIVE SortedRows(_, _)
SortedRows(n, lo) ==
    IF n = 0 THEN {<<>>}
    ELSE UNION {{<<i>> \o r : r \in SortedRows(n - 1, i)} : i \in lo..Len(ClassifyPalette)}

\* one-row sheets of SampleLen pixels, one per multiset of palette colours:
\* the 'A' glyph of SampleFont covers the whole row
SampleSheets ==
    {<<[i \in 1..SampleLen |-> ClassifyPalette[r[i]]]>> : r \in SortedRows(SampleLen, 1)}

SampleFont == OneGlyphFont([x |-> 0, w |-> SampleLen], <<>>)

InitClassify ==
    /\ Idle
    /\ image \in SampleSheets
    /\ font_data = SampleFont
    /\ negative_wraps \in BOOLEAN
    /\ libm_pow = "nearest"
    /\ batch = NoBatch
    /\ arg = EmptyDict
    /\ pc = "call_classify"

ApplyClassify ==
    /\ pc = "call_classify"
    /\ ret' = analyze_font_pattern(image, font_data, GlobalHeight(font_data))
    /\ pc' = "returned"
    /\ UNCHANGED <<game_name, image, font_data, negative_wraps, libm_pow, batch, generators_js,
                   pattern, auto_pattern, sub_i, files, skipped, metadata_cache,
                   reads, arg>>

SpecClassify == InitClassify /\ [][ApplyClassify]_vars

\* counts over the sampled row, taken from the sheet itself
Row == image[1]
NumWhere(P(_)) == Cardinality({i \in DOMAIN Row : A(Row[i]) > 10 /\ P(Row[i])})

Sampled == NumWhere(LAMBDA c : TRUE)
Opaque200(c) == A(c) > 200
Spread(c) == Max3(Abs(R(c) - G(c)), Abs(G(c) - B(c)), Abs(R(c) - B(c)))
NumChromatic == NumWhere(LAMBDA c : Opaque200(c) /\ Spread(c) > 40)
ChromaticAbove10Percent == 10 * NumChromatic > Sampled

\* the dominant channel of a pixel: the first of R, G, B that has the largest value
LeadChannel(c) ==
    IF R(c) >= G(c) /\ R(c) >= B(c) THEN "R" ELSE IF G(c) >= B(c) THEN "G" ELSE "B"

NumBright == NumWhere(LAMBDA c : Opaque200(c) /\ Max3(R(c), G(c), B(c)) > 150)
NumDark == NumWhere(LAMBDA c : Opaque200(c) /\ Max3(R(c), G(c), B(c)) <= 150)

\* the result is one of the single-hue types rather than multi_color
TreatedAsSingleHue == ret["type"] \in {"chromatic_shadowed", "chromatic_outlined"}

\* among the chromatic pixels, those led by channel ch
ChromaticLedBy(ch) ==
    NumWhere(LAMBDA c : Opaque200(c) /\ Spread(c) > 40 /\ LeadChannel(c) = ch)

\* among the pixels with alpha > 200 and a non-zero channel, those led by ch
OpaqueLit == NumWhere(LAMBDA c : Opaque200(c) /\ Max3(R(c), G(c), B(c)) > 0)
OpaqueLitLedBy(ch) ==
    NumWhere(LAMBDA c : Opaque200(c) /\ Max3(R(c), G(c), B(c)) > 0 /\ LeadChannel(c) = ch)

SplitCase ==
    pc = "returned" /\ ChromaticAbove10Percent /\ NumBright > 0 /\ NumDark > 0

\* C9 as stated: with chromatic pixels above 10% of the sample (and both
\* bright and dark pixels present, so that the outcome shows it), the font is
\* treated as single-hue exactly when one channel is dominant in at least 80%
\* of the chromatic pixels.
C9_Original ==
    SplitCase =>
        (TreatedAsSingleHue
            <=> \E ch \in {"R", "G", "B"} : 5 * ChromaticLedBy(ch) >= 4 * NumChromatic)

\* C9 amended: with chromatic pixels above 10% of the sample (and both bright
\* and dark pixels present), the font is treated as single-hue exactly when
\* one channel is dominant in strictly more than 80% of the sampled pixels
\* that have alpha > 200 and a non-zero channel, chromatic or not.
C9_DominanceStrictOverOpaque ==
    SplitCase =>
        (TreatedAsSingleHue
            <=> \E ch \in {"R", "G", "B"} : 5 * OpaqueLitLedBy(ch) > 4 * OpaqueLit)

\* a sample where one channel leads exactly 80% of the opaque lit pixels came
\* back as multi_color
C9_Witness ==
    /\ SplitCase
    /\ \E ch \in {"R", "G", "B"} : 5 * OpaqueLitLedBy(ch) = 4 * OpaqueLit
    /\ ret["type"] = "multi_color"

NumWhite == NumWhere(LAMBDA c : R(c) > 200 /\ G(c) > 200 /\ B(c) > 200 /\ Opaque200(c))
NumBlack == NumWhere(LAMBDA c : R(c) < 50 /\ G(c) < 50 /\ B(c) < 50 /\ Opaque200(c))
MidRange(v) == 50 <= v /\ v <= 200
NumGray ==
    NumWhere(LAMBDA c : /\ MidRange(R(c)) /\ MidRange(G(c)) /\ MidRange(B(c))
                        /\ Abs(R(c) - G(c)) < 30 /\ Abs(G(c) - B(c)) < 30
                        /\ Opaque200(c))
NumSemi == NumWhere(LAMBDA c : A(c) < 240)
NumColours == Cardinality({<<R(Row[i]), G(Row[i]), B(Row[i])>> :
                              i \in {j \in DOMAIN Row : A(Row[j]) > 10}})

\* the first matching rule, in the order (2) .. (6)
RuleTableType ==
    IF 5 * NumWhite > Sampled /\ 5 * NumBlack > Sampled THEN "outlined"
    ELSE IF NumBlack >= 1 /\ 10 * NumBlack < 3 * Sampled /\ NumColours >= 2 THEN "shadowed"
    ELSE IF NumSemi >= 1 \/ 5 * NumGray > Sampled THEN "antialiased"
    ELSE IF NumColours = 1 THEN "monochrome_solid"
    ELSE "unknown"

\* C10: for a non-empty sample whose chromatic fraction is not above 10%, the
\* type is the first matching rule of outlined, shadowed, antialiased,
\* monochrome_solid, unknown, and the font is never skipped.
C10_AchromaticRuleOrder ==
    (pc = "returned" /\ Sampled > 0 /\ ~ChromaticAbove10Percent)
        => (ret["type"] = RuleTableType /\ ret["skip"] = FALSE)

\* an ambiguous sample holding a chromatic pixel, below the 10% gate, came
\* back as unknown
C10_Witness ==
    /\ pc = "returned" /\ Sampled > 0 /\ ~ChromaticAbove10Percent
    /\ NumChromatic > 0
    /\ ret["type"] = "unknown" /\ ret["skip"] = FALSE

\* the verdict of the spatial analysis on the sampled rectangle
SampleSpatial == detect_spatial_pattern(image, 0, 0, SampleLen, 1)

\* one channel leads more than 80% of the opaque lit pixels
PassesDominance == \E ch \in {"R", "G", "B"} : 5 * OpaqueLitLedBy(ch) > 4 * OpaqueLit

SingleHueType ==
    IF SampleSpatial = "shadow" THEN "chromatic_shadowed"
    ELSE IF SampleSpatial = "outline" THEN "chromatic_outlined"
    ELSE IF 10 * NumDark < 3 * Sampled THEN "chromatic_shadowed"
    ELSE "chromatic_outlined"

\* C11: with chromatic pixels above 10% of the sample, a single-hue sample that
\* has both bright and dark pixels is chromatic_shadowed when the spatial
\* result is 'shadow', chromatic_outlined when it is 'outline', and on
\* 'unknown' chromatic_shadowed if dark / total < 0.3, else chromatic_outlined;
\* when the dominance test fails or bright or dark is empty the result is
\* multi_color with skip = true.
C11_ChromaticBranchOutcome ==
    (pc = "returned" /\ ChromaticAbove10Percent)
        => IF PassesDominance /\ NumBright > 0 /\ NumDark > 0
           THEN ret["type"] = SingleHueType
           ELSE ret["type"] = "multi_color" /\ ret["skip"] = TRUE

\* a single-hue sample with an unclear spatial result and dark pixels making
\* exactly 30% of the sample came back as chromatic_outlined
C11_Witness ==
    /\ pc = "returned" /\ ChromaticAbove10Percent
    /\ PassesDominance /\ NumBright > 0 /\ NumDark > 0
    /\ SampleSpatial = "unknown"
    /\ 10 * NumDark = 3 * Sampled
    /\ ret["type"] = "chromatic_outlined"

(***************************************************************************)
(* detect_spatial_pattern applied to drawn rectangles                      *)
(***************************************************************************)
SpatialLen == 8
SpatialW == 2
SpatialH == 2

PowModes == {"nearest", "below", "above"}

\* a bright, a dark and an in-between colour
SpatialPalette == {BrightRed, Black, Gray}

\* one-row sheets of SpatialLen pixels, analysed whole
SpatialRows == {<<r>> : r \in [1..SpatialLen -> SpatialPalette]}

\* sheets of SpatialW x SpatialH pixels, analysed from (x, y) with the
\* rectangle reaching past the sheet when x or y is not 0
SpatialGrids == [1..SpatialH -> [1..SpatialW -> SpatialPalette]]

\* dark in local columns 0-4, bright in columns 6-9 of a 10 x 10 rectangle
SplitSheet ==
    [py \in 1..10 |-> [px \in 1..10 |->
        IF px <= 5 THEN Black ELSE IF px >= 7 THEN BrightRed ELSE Clear]]

\* a solid 6 x 6 bright interior inside a 2-pixel dark border
BorderSheet ==
    [py \in 1..10 |-> [px \in 1..10 |->
        IF px >= 3 /\ px <= 8 /\ py >= 3 /\ py <= 8 THEN BrightRed ELSE Black]]

SpatialCalls ==
    {[img |-> im, x |-> 0, y |-> 0, w |-> SpatialLen, h |-> 1] : im \in SpatialRows}
    \cup {[img |-> im, x |-> x, y |-> y, w |-> SpatialW, h |-> SpatialH] :
             im \in SpatialGrids, x \in 0..1, y \in 0..1}
    \cup {[img |-> im, x |-> 0, y |-> 0, w |-> 10, h |-> 10] :
             im \in {SplitSheet, BorderSheet}}

\* no negative coordinate is drawn here, so negative_wraps is not read
InitSpatial ==
    /\ Idle
    /\ \E c \in SpatialCalls :
          /\ image = c.img
          /\ arg = [x |-> c.x, y |-> c.y, w |-> c.w, h |-> c.h]
    /\ font_data = PlainFont
    /\ negative_wraps = FALSE
    /\ libm_pow \in PowModes
    /\ batch = NoBatch
    /\ pc = "call_spatial"

ApplySpatial ==
    /\ pc = "call_spatial"
    /\ ret' = detect_spatial_pattern(image, arg.x, arg.y, arg.w, arg.h)
    /\ pc' = "returned"
    /\ UNCHANGED <<game_name, image, font_data, negative_wraps, libm_pow, batch, generators_js,
                   pattern, auto_pattern, sub_i, files, skipped, metadata_cache,
                   reads, arg>>

SpecSpatial == InitSpatial /\ [][ApplySpatial]_vars

\* the local coordinates of the rectangle's pixels that lie on the sheet
RectCells ==
    {<<lx, ly>> \in (0..(arg.w - 1)) \X (0..(arg.h - 1)) :
        InBounds(image, arg.x + lx, arg.y + ly)}

CellColour(p) == image[arg.y + p[2] + 1][arg.x + p[1] + 1]

BrightCells == {p \in RectCells : A(CellColour(p)) > 100
                                  /\ Max3(R(CellColour(p)), G(CellColour(p)), B(CellColour(p))) > 150}
DarkCells == {p \in RectCells : A(CellColour(p)) > 100
                                /\ Max3(R(CellColour(p)), G(CellColour(p)), B(CellColour(p))) < 100}

RECURSIVE SumOver(_, _)
SumOver(S, k) ==
    IF S = {} THEN 0
    ELSE LET p == CHOOSE q \in S : TRUE IN p[k] + SumOver(S \ {p}, k)

\* the difference of the two centroids along axis k as a reduced fraction
\* <<numerator, denominator>>, denominator > 0
CentroidOffset(k) ==
    LET bn == Cardinality(BrightCells)
        dn == Cardinality(DarkCells)
        n == SumOver(BrightCells, k) * dn - SumOver(DarkCells, k) * bn
        g == Gcd(Abs(n), bn * dn)
    IN  <<n \div g, (bn * dn) \div g>>

\* the squared Euclidean distance of the centroids as a fraction
DistanceSquared ==
    LET ox == CentroidOffset(1)
        oy == CentroidOffset(2)
    IN  <<ox[1] * ox[1] * oy[2] * oy[2] + oy[1] * oy[1] * ox[2] * ox[2],
          ox[2] * ox[2] * oy[2] * oy[2]>>

DistanceVerdict ==
    IF BrightCells = {} \/ DarkCells = {} THEN "unknown"
    ELSE IF 25 * DistanceSquared[1] > 16 * DistanceSquared[2] THEN "shadow"
    ELSE IF 100 * DistanceSquared[1] < 9 * DistanceSquared[2] THEN "outline"
    ELSE "unknown"

\* C12: detect_spatial_pattern returns 'shadow' when the Euclidean distance
\* between the centroid of the bright pixels and that of the dark pixels (in
\* local coordinates) is > 0.8, 'outline' when it is < 0.3, 'unknown'
\* otherwise and when either population is empty.
C12_VerdictByCentroidDistance ==
    pc = "returned" => ret = DistanceVerdict

(***************************************************************************)
(* Claims about the dimensions of a font                                   *)
(***************************************************************************)
\* the glyph entries of a font table, and their resolved sizes: own value,
\* else the default's, else the global height
GlyphsOf(fd) == {i \in DOMAIN fd.items :
                    fd.items[i].key \notin metadata_keys /\ fd.items[i].isdict}

WidthOf(fd, height, i) ==
    IF "w" \in DOMAIN fd.items[i].val THEN fd.items[i].val["w"]
    ELSE IF "w" \in DOMAIN fd.default THEN fd.default["w"]
    ELSE height

HeightOf(fd, height, i) ==
    IF "h" \in DOMAIN fd.items[i].val THEN fd.items[i].val["h"]
    ELSE IF "h" \in DOMAIN fd.default THEN fd.default["h"]
    ELSE height

HasDefaultWidth(fd) == "w" \in DOMAIN fd.default

EqualWidths(fd, height) ==
    /\ GlyphsOf(fd) # {}
    /\ \A i, j \in GlyphsOf(fd) : WidthOf(fd, height, i) = WidthOf(fd, height, j)

\* the monospace flag generate_yaff names a file by
NamedMonospace(f) == "is_monospace" \in DOMAIN f.pattern /\ f.pattern["is_monospace"] = TRUE

\* C13: the monospace flag of every written (sub)font is true whenever the
\* font has a default width and whenever all its resolved glyph widths are
\* equal, whatever the classification, also when the sampled glyph has no
\* visible pixel.
C13_MonospaceWheneverUniform ==
    \A k \in DOMAIN files :
        (HasDefaultWidth(FileFont(files[k]))
         \/ EqualWidths(FileFont(files[k]), FileHeight(files[k])))
            => NamedMonospace(files[k])

(***************************************************************************)
(* analyze_font_pattern applied to drawn font tables                       *)
(***************************************************************************)
MaxEntries == 3

ScanKeys == {"65", "97", "48", "66", "notes"}

\* a glyph on the first pixel, a glyph on the second pixel sized by the
\* defaults, a dict without coordinates, and an entry that is not a dict
ScanValues ==
    {[isdict |-> TRUE, val |-> [x |-> 0, w |-> 1]],
     [isdict |-> TRUE, val |-> [x |-> 1]],
     [isdict |-> TRUE, val |-> [w |-> 2, h |-> 1]],
     [isdict |-> FALSE, val |-> EmptyDict]}

\* the sequences of at most n entries with distinct keys
RECURSIVE ScanItems(_)
ScanItems(n) ==
    IF n = 0 THEN {<<>>}
    ELSE LET shorter == ScanItems(n - 1)
         IN  shorter \cup
             {Append(l, [key |-> k, isdict |-> v.isdict, val |-> v.val]) :
                 l \in {m \in shorter : Len(m) = n - 1},
                 k \in ScanKeys, v \in ScanValues}

DistinctKeys(items) == \A i, j \in DOMAIN items : items[i].key = items[j].key => i = j

ScanFonts ==
    {[top |-> [height |-> 2], default |-> d, items |-> it, subfonts |-> <<>>] :
        d \in {EmptyDict, [w |-> 2], [h |-> 1]},
        it \in {l \in ScanItems(MaxEntries) : DistinctKeys(l)}}

ScanSheets == {<<<<White, Semi>>>>, <<<<Clear, White>>>>}

InitScan ==
    /\ Idle
    /\ image \in ScanSheets
    /\ font_data \in ScanFonts
    /\ negative_wraps = FALSE
    /\ libm_pow = "nearest"
    /\ batch = NoBatch
    /\ arg = EmptyDict
    /\ pc = "call_classify"

SpecScan == InitScan /\ [][ApplyClassify]_vars

MaxOver(S) == CHOOSE m \in S : \A n \in S : n <= m

\* C14: max_width and max_height of a classification are the largest
\* resolved width and the largest resolved height over the font's glyphs
\* (own value, else the default's, else the global height).
C14_MaxOverResolvedRects ==
    (pc = "returned" /\ GlyphsOf(font_data) # {})
        => /\ "max_width" \in DOMAIN ret /\ "max_height" \in DOMAIN ret
           /\ ret["max_width"] =
                 MaxOver({WidthOf(font_data, GlobalHeight(font_data), i) :
                             i \in GlyphsOf(font_data)})
           /\ ret["max_height"] =
                 MaxOver({HeightOf(font_data, GlobalHeight(font_data), i) :
                             i \in GlyphsOf(font_data)})

\* entries that are glyphs with coordinates
WithCoordinates(fd) == {i \in DOMAIN fd.items :
                           fd.items[i].isdict /\ "x" \in DOMAIN fd.items[i].val}

KeyIndex(fd, key) == {i \in WithCoordinates(fd) : fd.items[i].key = key}

\* the glyph the sample rule names: 65, else 97, else 48, else the first
\* glyph with coordinates under a key that is not reserved; {} when none
RuleSample(fd) ==
    LET others == {i \in WithCoordinates(fd) : fd.items[i].key \notin metadata_keys}
    IN  IF KeyIndex(fd, "65") # {} THEN KeyIndex(fd, "65")
        ELSE IF KeyIndex(fd, "97") # {} THEN KeyIndex(fd, "97")
        ELSE IF KeyIndex(fd, "48") # {} THEN KeyIndex(fd, "48")
        ELSE IF others # {} THEN {CHOOSE i \in others : \A j \in others : i <= j}
        ELSE {}

\* the type the classifier gives a table holding that glyph alone
TypeOfGlyphAlone(i) ==
    analyze_font_pattern(image,
        [font_data EXCEPT !.items = <<font_data.items[i]>>],
        GlobalHeight(font_data))["type"]

\* C15: the classification is that of one glyph: the entry 65 if it has
\* coordinates, else 97, else 48, else the first glyph with coordinates in
\* document order; without such a glyph the result is unknown, not skipped.
C15_SamplePreference ==
    pc = "returned"
        => IF RuleSample(font_data) = {}
           THEN ret["type"] = "unknown" /\ ret["skip"] = FALSE
           ELSE \A i \in RuleSample(font_data) : ret["type"] = TypeOfGlyphAlone(i)

\* a table without 65 whose 97 and 48 classify differently, 48 listed first,
\* was classified by its 97
C15_Witness ==
    /\ pc = "returned"
    /\ KeyIndex(font_data, "65") = {}
    /\ \E i \in KeyIndex(font_data, "97") : \E j \in KeyIndex(font_data, "48") :
          /\ j < i
          /\ TypeOfGlyphAlone(i) # TypeOfGlyphAlone(j)
          /\ ret["type"] = TypeOfGlyphAlone(i)

(***************************************************************************)
(* generate_font_section applied to tables of several codes                *)
(***************************************************************************)
OrderLen == 2

OrderKeys == {"65", "145", "146", "200", "8216"}

\* glyphs as tall as the defaults say, shorter and taller than the global
\* height, 9 and 13 rows tall, and one with a right bearing
OrderValues ==
    {[x |-> 0], [x |-> 0, h |-> 1], [x |-> 0, h |-> 3],
     [x |-> 0, w |-> 1, h |-> 9], [x |-> 0, w |-> 1, h |-> 13],
     ("x" :> 1) @@ ("w" :> 1) @@ ("h" :> 2) @@ ("right-bearing" :> 1)}

RECURSIVE OrderItems(_)
OrderItems(n) ==
    IF n = 0 THEN {<<>>}
    ELSE LET shorter == OrderItems(n - 1)
         IN  shorter \cup
             {Append(l, Entry(k, v)) :
                 l \in {m \in shorter : Len(m) = n - 1}, k \in OrderKeys, v \in OrderValues}

OrderFonts ==
    {[top |-> [height |-> H], default |-> d, items |-> it, subfonts |-> <<>>] :
        H \in {2, 13},
        d \in {EmptyDict, [h |-> 1]},
        it \in {l \in OrderItems(OrderLen) : DistinctKeys(l)}}

InitOrder ==
    /\ Idle
    /\ image \in ScanSheets
    /\ font_data \in OrderFonts
    /\ negative_wraps = FALSE
    /\ libm_pow = "nearest"
    /\ batch = NoBatch
    /\ arg = [pat |-> EmptyDict]
    /\ pc = "call_section"

SpecOrder == InitOrder /\ [][ApplySection]_vars

NumBlocks(sec) == Cardinality(BlockStarts(sec))

RECURSIVE HexValue(_)
HexValue(s) ==
    IF Len(s) = 0 THEN 0
    ELSE 16 * HexValue(SubSeq(s, 1, Len(s) - 1))
         + (IndexOf(HexLower, CharAt(s, Len(s))) - 1)

\* the number written in the k-th block's tag 'u+XXXX:'
TagValue(sec, k) == HexValue(SubSeq(BlockTag(sec, k), 3, Len(BlockTag(sec, k)) - 1))

\* C16: in every document of generate_font_section the glyph blocks appear in
\* ascending numeric order of the codepoint written in their 'u+XXXX' tag,
\* for every set of source keys, 145 and 146 included.
C16_BlocksAscendByTag ==
    pc = "returned"
        => \A k \in 1..(NumBlocks(ret.lines) - 1) :
               TagValue(ret.lines, k) <= TagValue(ret.lines, k + 1)

\* the lines of the k-th block, from its comment to the line before the next
BlockLines(sec, k) ==
    LET s == NthStart(sec, k)
        e == IF k < NumBlocks(sec) THEN NthStart(sec, k + 1) - 1 ELSE Len(sec)
    IN  SubSeq(sec, s, e)

IsShiftLine(line) == Len(line) >= 14 /\ SubSeq(line, 1, 14) = "    shift-up: "

ShiftLinesOf(block) == {i \in DOMAIN block : IsShiftLine(block[i])}

\* C17: a glyph's block has a 'shift-up: N' line if and only if the resolved
\* glyph height is smaller than the global height, and then N is the global
\* height minus the glyph height.
C17_ShiftUpIffShorter ==
    pc = "returned"
        => \A k \in 1..Len(font_data.items) :
               LET g == font_data.items[KthEntry(k)].val
                   block == BlockLines(ret.lines, k)
                   H == GlobalHeight(font_data)
               IN  IF ClaimedHeight(g) < H
                   THEN /\ Cardinality(ShiftLinesOf(block)) = 1
                        /\ \A i \in ShiftLinesOf(block) :
                               block[i] = "    shift-up: " \o ToString(H - ClaimedHeight(g))
                   ELSE ShiftLinesOf(block) = {}

\* a 9-row glyph in a font of global height 13 was written with 'shift-up: 4'
\* and a 13-row glyph of the same font without a shift-up line
C17_Witness ==
    /\ pc = "returned"
    /\ GlobalHeight(font_data) = 13
    /\ \E k, m \in 1..Len(font_data.items) :
          /\ ClaimedHeight(font_data.items[KthEntry(k)].val) = 9
          /\ \E i \in DOMAIN BlockLines(ret.lines, k) :
                 BlockLines(ret.lines, k)[i] = "    shift-up: 4"
          /\ ClaimedHeight(font_data.items[KthEntry(m)].val) = 13
          /\ ShiftLinesOf(BlockLines(ret.lines, m)) = {}

(***************************************************************************)
(* analyze_character_coverage applied to drawn code sets                   *)
(***************************************************************************)
MaxScripts == 2

\* per script: n codes of its range, the last code of the range first
BlockCodes(lo, hi, n) == [i \in 1..n |-> IF i = 1 THEN hi ELSE lo + i - 2]

\* codes at the ends of the four symbol ranges, then geometric shapes
SymbolCodes == <<9727, 8592, 8703, 8704, 8959, 8960, 9215, 9632, 9633, 9634, 9635>>

\* the codes drawn for script k when it is filled to n codes; the kana block
\* starts in hiragana and runs into katakana
ScriptCodes(k, n) ==
    IF k = 1 THEN BlockCodes(32, 126, n)
    ELSE IF k = 2 THEN BlockCodes(160, 255, n)
    ELSE IF k = 3 THEN BlockCodes(256, 591, n)
    ELSE IF k = 4 THEN BlockCodes(1024, 1279, n)
    ELSE IF k = 5 THEN BlockCodes(880, 1023, n)
    ELSE IF k = 6 THEN BlockCodes(12443, 12543, n)
    ELSE IF k = 7 THEN BlockCodes(12544, 12591, n)
    ELSE IF k = 8 THEN BlockCodes(9472, 9599, n)
    ELSE SubSeq(SymbolCodes, 1, n)

\* the counts around which each script is drawn
DrawnAround == <<90, 20, 20, 10, 5, 10, 10, 20, 10>>

\* extra letters, and codes that lie just outside every range
LetterLists == {<<>>, <<65>>, <<97>>, <<65, 97>>}
StrayCodes == <<31, 127, 159, 592, 879, 1280, 12351, 12592, 9471, 9600, 8591, 9216, 9631, 9728>>

\* entries that are not counted: a reserved key, a key that is not a number,
\* an upper-case letter whose value is not a dict
UncountedEntries ==
    <<Entry("notes", [x |-> 0]), Entry("abc", [x |-> 0]),
      [key |-> "66", isdict |-> FALSE, val |-> EmptyDict]>>

CoverageFont(codes, stray) ==
    LET all == codes \o (IF stray THEN StrayCodes ELSE <<>>)
    IN  [top |-> [height |-> 1], default |-> EmptyDict, subfonts |-> <<>>,
         items |-> [i \in DOMAIN all |-> Entry(ToString(all[i]), [x |-> 0])]
                   \o (IF stray THEN UncountedEntries ELSE <<>>)]

\* the codes of the scripts k, k + 1, ... that c fills
RECURSIVE DrawnCodes(_, _)
DrawnCodes(c, k) ==
    IF k > Len(DrawnAround) THEN <<>>
    ELSE (IF k \in DOMAIN c THEN ScriptCodes(k, DrawnAround[k] - 1 + c[k]) ELSE <<>>)
         \o DrawnCodes(c, k + 1)

\* at most MaxScripts scripts, each filled to one below, exactly, or one
\* above the count it is drawn around; extra letters where the printable
\* block is not drawn
CoverageFonts ==
    UNION {{CoverageFont(DrawnCodes(c, 1) \o letters, stray) :
               letters \in (IF 1 \in DOMAIN c THEN {<<>>} ELSE LetterLists),
               stray \in BOOLEAN} :
        c \in UNION {[T -> 0..2] : T \in {U \in SUBSET (1..9) : Cardinality(U) <= MaxScripts}}}

InitCoverage ==
    /\ Idle
    /\ image = <<<<White>>>>
    /\ font_data \in CoverageFonts
    /\ negative_wraps = FALSE
    /\ libm_pow = "nearest"
    /\ batch = NoBatch
    /\ arg = EmptyDict
    /\ pc = "call_coverage"

ApplyCoverage ==
    /\ pc = "call_coverage"
    /\ ret' = analyze_character_coverage(font_data)
    /\ pc' = "returned"
    /\ UNCHANGED <<game_name, image, font_data, negative_wraps, libm_pow, batch, generators_js,
                   pattern, auto_pattern, sub_i, files, skipped, metadata_cache,
                   reads, arg>>

SpecCoverage == InitCoverage /\ [][ApplyCoverage]_vars

\* a font's codepoints: the numeric keys of its glyph entries, 145 and 146
\* standing for U+2018 and U+2019
KeyCodepoints(fd) ==
    {IF c = 145 THEN 8216 ELSE IF c = 146 THEN 8217 ELSE c :
        c \in {ToInt(fd.items[i].key) :
                  i \in {j \in GlyphsOf(fd) : IsInt(fd.items[j].key)}}}

FontCodepoints == KeyCodepoints(font_data)

Within(S, lo, hi) == Cardinality(S \cap (lo..hi))

\* label, number of codepoints in the script's range, threshold
ScriptTable(S) ==
    <<<<"ascii", Within(S, 32, 126), 90>>,
      <<"latin1", Within(S, 160, 255), 20>>,
      <<"latinext", Within(S, 256, 591), 20>>,
      <<"cyrillic", Within(S, 1024, 1279), 10>>,
      <<"greek", Within(S, 880, 1023), 5>>,
      <<"kana", Within(S, 12352, 12543), 10>>,
      <<"bopomofo", Within(S, 12544, 12591), 10>>,
      <<"boxdraw", Within(S, 9472, 9599), 20>>,
      <<"symbols", Within(S, 8592, 9215) + Within(S, 9632, 9727), 10>>,
      <<"upper", IF Within(S, 65, 90) > 0 /\ Within(S, 97, 122) = 0 THEN 1 ELSE 0, 1>>>>

RECURSIVE LabelsFrom(_, _)
LabelsFrom(t, k) ==
    IF k > Len(t) THEN <<>>
    ELSE (IF t[k][2] >= t[k][3] THEN <<t[k][1]>> ELSE <<>>) \o LabelsFrom(t, k + 1)

\* C18: analyze_character_coverage returns, in the fixed order ascii, latin1,
\* latinext, cyrillic, greek, kana, bopomofo, boxdraw, symbols, upper, exactly
\* the labels whose count of the font's codepoints meets the threshold, with
\* 'upper' last iff an upper-case letter is present and no lower-case one.
C18_LabelsByThreshold ==
    pc = "returned" => ret = LabelsFrom(ScriptTable(FontCodepoints), 1)

\* 91 printable-ASCII codepoints and nothing else gave exactly ['ascii']
C18_Witness ==
    /\ pc = "returned"
    /\ Len(font_data.items) = 91 /\ FontCodepoints \subseteq 32..126
    /\ ret = <<"ascii">>

(***************************************************************************)
(* generate_yaff applied to fonts whose glyphs and subfonts differ in      *)
(* letters, heights and widths                                             *)
(***************************************************************************)
NamingSubfonts == 1

NamingGames == {"mw", "zelda"}
NamingPalette == {Clear, White, BrightRed}
NamingSheets == {<<row>> : row \in [1..ImgW -> NamingPalette]}

\* a letter at the left of the sheet, upper or lower case, one or two pixels
\* wide, as tall as the font or taller
NamingGlyphs ==
    {Entry(key, g) : key \in {"65", "97"},
                     g \in [x : {0}, w : 1..2] \cup [x : {0}, w : 1..2, h : {2}]}

NamingTable(top, e, subs) ==
    [top |-> top, default |-> EmptyDict, items |-> <<e>>, subfonts |-> subs]

\* the first n subfont names, each with its own glyph and with or without
\* its own height
RECURSIVE NamingSubfontLists(_)
NamingSubfontLists(n) ==
    IF n = 0 THEN {<<>>}
    ELSE LET shorter == NamingSubfontLists(n - 1)
         IN  shorter \cup
             {Append(l, [name |-> SubfontNames[((n - 1) % Len(SubfontNames)) + 1]
                                  \o (IF n > Len(SubfontNames) THEN ToString(n) ELSE ""),
                         data |-> NamingTable(top, e, <<>>)]) :
                 l \in {m \in shorter : Len(m) = n - 1},
                 top \in {EmptyDict, [height |-> 3]}, e \in NamingGlyphs}

NamingFonts ==
    {NamingTable([height |-> 1], e, subs) :
        e \in NamingGlyphs, subs \in NamingSubfontLists(NamingSubfonts)}

InitNaming ==
    /\ game_name \in NamingGames
    /\ image \in NamingSheets
    /\ font_data \in NamingFonts
    /\ negative_wraps = FALSE
    /\ libm_pow = "nearest"
    /\ batch = NoBatch
    /\ generators_js = <<>>
    /\ pc = "analyze_main"
    /\ pattern = EmptyDict
    /\ auto_pattern = EmptyDict
    /\ sub_i = 0
    /\ files = <<>>
    /\ skipped = <<>>
    /\ metadata_cache = <<>>
    /\ reads = 0
    /\ arg = EmptyDict
    /\ ret = EmptyDict

SpecNaming == InitNaming /\ [][Next]_vars

RECURSIVE Underscored(_)
Underscored(labels) ==
    IF labels = <<>> THEN "" ELSE "_" \o Head(labels) \o Underscored(Tail(labels))

FileId(f) ==
    IF f.sub = 0 THEN game_name ELSE game_name \o "-" \o font_data.subfonts[f.sub].name

\* the name of a written file from the given height and width
NameWith(f, H, W) ==
    FileId(f)
    \o Underscored(LabelsFrom(ScriptTable(KeyCodepoints(FileFont(f))), 1))
    \o "_" \o (IF NamedMonospace(f) THEN ToString(H) \o "x" \o ToString(W) ELSE ToString(H))
    \o ".yaff"

TallestGlyph(f) ==
    MaxOver({HeightOf(FileFont(f), FileHeight(f), i) : i \in GlyphsOf(FileFont(f))})

WidestGlyph(f) ==
    MaxOver({WidthOf(FileFont(f), FileHeight(f), i) : i \in GlyphsOf(FileFont(f))})

\* C19: every written document is named <id>[_<labels>]_<dims>.yaff, id the
\* font id or <font id>-<subfont id>, labels the coverage labels of that
\* (sub)font, dims HxW when its classification is monospace and H otherwise,
\* H and W the largest height and width of that (sub)font's glyphs.
C19_FileNames ==
    \A k \in DOMAIN files :
        files[k].path = NameWith(files[k], TallestGlyph(files[k]), WidestGlyph(files[k]))

\* the same composition holds with the dimensions the classification
\* recorded, when it recorded them
NameFromRecordedDimensions ==
    \A k \in DOMAIN files :
        "max_height" \in DOMAIN files[k].pattern
            => files[k].path = NameWith(files[k], files[k].pattern["max_height"],
                                        files[k].pattern["max_width"])

(***************************************************************************)
(* Claims about load_game_metadata across the documents of one run         *)
(***************************************************************************)
HasPrefix(line, p) == Len(line) >= Len(p) /\ SubSeq(line, 1, Len(p)) = p

\* the header lines that depend on the metadata table
OptionalPrefixes ==
    {"# Source game: ", "# Year: ", "# Publisher: ", "# Platform: ", "copyright: "}

OptionalLines(f) ==
    {j \in DOMAIN f.lines : \E p \in OptionalPrefixes : HasPrefix(f.lines[j], p)}

\* a document written through to its glyph section
WrittenThrough(f) ==
    /\ \E j \in DOMAIN f.lines : f.lines[j] = "yaff: 1.0"
    /\ \E j \in DOMAIN f.lines : f.lines[j] = "# Glyph definitions"

\* the table the source holds, empty when it cannot be loaded
SourceTable == IF generators_js = <<>> THEN EmptyDict ELSE generators_js[1]

\* a (sub)font has passed the skip decision and is about to be written
AboutToWrite == pc \in {"skip_main", "skip_sub"} /\ ~Truthy(pattern, "skip")

\* C20: in one run generators.js is opened at most once, by the first
\* write_single_yaff; every later one gets the same table and opens nothing,
\* also when the load failed and the table is empty; a failed load or a font
\* id missing from the table never stops a document from being written, it
\* only leaves the optional header lines out.
C20_MetadataReadOnce ==
    [][ /\ reads' <= 1
        /\ files # <<>> => (reads' = reads /\ metadata_cache' = metadata_cache)
        /\ AboutToWrite =>
              /\ Len(files') = Len(files) + 1
              /\ reads' = 1
              /\ metadata_cache' = <<SourceTable>>
              /\ WrittenThrough(files'[Len(files')])
              /\ game_name \notin DOMAIN SourceTable
                    => OptionalLines(files'[Len(files')]) = {}
      ]_vars

\* a second document was written after a failed load: one read, the table
\* still empty, no optional line in either document
C20_Witness ==
    /\ Len(files) >= 2
    /\ generators_js = <<>>
    /\ reads = 1
    /\ metadata_cache = <<EmptyDict>>
    /\ \A k \in DOMAIN files : OptionalLines(files[k]) = {} /\ WrittenThrough(files[k])

(***************************************************************************)
(* analyze_font_pattern applied to two font tables on one sheet            *)
(***************************************************************************)
PairLen == 2

PairKeys == {"65", "48", "66"}

\* glyphs on the first pixel with and without a width of their own, a glyph
\* on the second pixel, a dict without coordinates, an entry that is no dict
PairValues ==
    {[isdict |-> TRUE, val |-> [x |-> 0]],
     [isdict |-> TRUE, val |-> [x |-> 0, w |-> 1]],
     [isdict |-> TRUE, val |-> [x |-> 1, w |-> 1]],
     [isdict |-> TRUE, val |-> [w |-> 2, h |-> 1]],
     [isdict |-> FALSE, val |-> EmptyDict]}

PairEntries == {[key |-> k, isdict |-> v.isdict, val |-> v.val] : k \in PairKeys, v \in PairValues}

RECURSIVE PairItems(_)
PairItems(n) ==
    IF n = 0 THEN {<<>>}
    ELSE LET shorter == PairItems(n - 1)
         IN  shorter \cup
             {Append(l, e) : l \in {m \in shorter : Len(m) = n - 1}, e \in PairEntries}

PairDefaults == {EmptyDict, [w |-> 2], [h |-> 1]}

PairTable(d, it) == [top |-> [height |-> 2], default |-> d, items |-> it, subfonts |-> <<>>]

\* a table, and the same entries followed by at most one more, under any
\* defaults
FontPairs ==
    {<<PairTable(d1, it), PairTable(d2, it \o more)>> :
        it \in {l \in PairItems(PairLen) : DistinctKeys(l)},
        more \in {<<>>} \cup {<<e>> : e \in PairEntries},
        d1 \in PairDefaults, d2 \in PairDefaults}

InitPair ==
    /\ Idle
    /\ image \in ScanSheets
    /\ \E p \in {q \in FontPairs : DistinctKeys(q[2].items)} :
          font_data = p[1] /\ arg = [other |-> p[2]]
    /\ negative_wraps = FALSE
    /\ libm_pow = "nearest"
    /\ batch = NoBatch
    /\ pc = "call_classify_both"

\* two calls on the same sheet, one per table
ApplyClassifyBoth ==
    /\ pc = "call_classify_both"
    /\ ret' = <<analyze_font_pattern(image, font_data, GlobalHeight(font_data)),
                analyze_font_pattern(image, arg.other, GlobalHeight(arg.other))>>
    /\ pc' = "returned"
    /\ UNCHANGED <<game_name, image, font_data, negative_wraps, libm_pow, batch, generators_js,
                   pattern, auto_pattern, sub_i, files, skipped, metadata_cache,
                   reads, arg>>

SpecPair == InitPair /\ [][ApplyClassifyBoth]_vars

\* the rectangle of the glyph the sample rule names: {} when there is none
SampledRect(fd) ==
    {[x |-> fd.items[i].val["x"],
      y |-> IF "y" \in DOMAIN fd.items[i].val THEN fd.items[i].val["y"]
            ELSE IF "y" \in DOMAIN fd.default THEN fd.default["y"] ELSE 0,
      w |-> WidthOf(fd, GlobalHeight(fd), i),
      h |-> HeightOf(fd, GlobalHeight(fd), i)] : i \in RuleSample(fd)}

\* the two calls agree on sheet (one variable), sampled rectangle and height
SameClassifierInputs ==
    /\ SampledRect(font_data) = SampledRect(arg.other)
    /\ GlobalHeight(font_data) = GlobalHeight(arg.other)

DimensionFields == {"is_monospace", "max_width", "max_height"}

WithoutDimensions(r) == [k \in (DOMAIN r) \ DimensionFields |-> r[k]]

\* C21 as stated: two calls of analyze_font_pattern that agree on sheet,
\* sampled rectangle and global height return the same classification in
\* every field, is_monospace, max_width and max_height included.
C21_PureInEveryField ==
    (pc = "returned" /\ SameClassifierInputs /\ SampledRect(font_data) # {})
        => ret[1] = ret[2]

\* C21 amended: two such calls return the same classification in every field
\* but is_monospace, max_width and max_height, which follow the sizes of all
\* the glyphs of each table.
C21_PureButDimensions ==
    (pc = "returned" /\ SameClassifierInputs)
        => WithoutDimensions(ret[1]) = WithoutDimensions(ret[2])

\* two tables with the same visible sample were classified alike, and differ
\* in a dimension field
C21_Witness ==
    /\ pc = "returned" /\ SameClassifierInputs
    /\ SampledRect(font_data) # {}
    /\ "max_width" \in DOMAIN ret[1] /\ "max_width" \in DOMAIN ret[2]
    /\ ret[1] # ret[2]
    /\ WithoutDimensions(ret[1]) = WithoutDimensions(ret[2])

(***************************************************************************)
(* Claims about the override step of generate_yaff                         *)
(***************************************************************************)
OverrideFields == {"type", "remove_shadow", "remove_outline"}

\* a classification without its type and removal flags
OutsideOverride(p) == [k \in (DOMAIN p) \ OverrideFields |-> p[k]]

\* the id the override table is looked up with at the current position
CurrentId ==
    IF pc \in {"override_sub", "skip_sub"}
    THEN game_name \o "-" \o font_data.subfonts[sub_i].name
    ELSE game_name

\* C22: the override step changes nothing but type, remove_shadow and
\* remove_outline: every other field of the automatic classification keeps
\* its value and no field is added or lost; for an id without an entry in
\* the override table the classification is left as detected, and it is the
\* one the written document was extracted with.
C22_OverrideFrame ==
    [][ /\ pc \in {"override_main", "override_sub"} =>
              /\ OutsideOverride(pattern') = OutsideOverride(pattern)
              /\ CurrentId \notin DOMAIN FONT_TYPE_OVERRIDES => pattern' = pattern
        /\ AboutToWrite =>
              /\ files'[Len(files')].pattern = pattern
              /\ CurrentId \notin DOMAIN FONT_TYPE_OVERRIDES => pattern = auto_pattern
      ]_vars

\* an override replaced the type of a classification carrying a dark ratio,
\* a dominant channel and dimensions, which are unchanged
C22_Witness ==
    /\ pc \in {"skip_main", "skip_sub"}
    /\ CurrentId \in DOMAIN FONT_TYPE_OVERRIDES
    /\ pattern["type"] # auto_pattern["type"]
    /\ {"dark_ratio", "dominant_channel", "is_monospace", "max_width", "max_height"}
          \subseteq DOMAIN auto_pattern
    /\ OutsideOverride(pattern) = OutsideOverride(auto_pattern)

(***************************************************************************)
(* generate_font_section applied to tables with entries that are no glyphs *)
(***************************************************************************)
SkipLen == 3

\* numbers, a signed number, words, a number followed by a letter, the empty
\* key and a reserved key
SkipKeys == {"65", "66", "+67", "abc", "6x", "", "notes"}

\* a glyph, a dict without x, and an entry that is not a dict
SkipValues ==
    {[isdict |-> TRUE, val |-> [x |-> 0]],
     [isdict |-> TRUE, val |-> [w |-> 1]],
     [isdict |-> FALSE, val |-> EmptyDict]}

RECURSIVE SkipItems(_)
SkipItems(n) ==
    IF n = 0 THEN {<<>>}
    ELSE LET shorter == SkipItems(n - 1)
         IN  shorter \cup
             {Append(l, [key |-> k, isdict |-> v.isdict, val |-> v.val]) :
                 l \in {m \in shorter : Len(m) = n - 1}, k \in SkipKeys, v \in SkipValues}

SkipFonts ==
    {[top |-> [height |-> 2], default |-> EmptyDict, items |-> it, subfonts |-> <<>>] :
        it \in {l \in SkipItems(SkipLen) : DistinctKeys(l)}}

InitSkip ==
    /\ Idle
    /\ image = <<<<White, Semi>>>>
    /\ font_data \in SkipFonts
    /\ negative_wraps = FALSE
    /\ libm_pow = "nearest"
    /\ batch = NoBatch
    /\ arg = [pat |-> EmptyDict]
    /\ pc = "call_section"

SpecSkip == InitSkip /\ [][ApplySection]_vars

\* a key written as a decimal integer: digits after an optional sign
DecimalKey(key) ==
    LET digits == IF Len(key) > 0 /\ SubSeq(key, 1, 1) \in {"+", "-"}
                  THEN SubSeq(key, 2, Len(key)) ELSE key
    IN  /\ Len(digits) > 0
        /\ \A i \in 1..Len(digits) :
               \E d \in 1..10 : SubSeq(digits, i, i) = SubSeq("0123456789", d, d)

\* the entries that parse as glyphs, and those that do not
ParsedEntries(fd) ==
    {i \in DOMAIN fd.items :
        /\ fd.items[i].key \notin metadata_keys
        /\ fd.items[i].isdict /\ "x" \in DOMAIN fd.items[i].val
        /\ DecimalKey(fd.items[i].key)}

\* the tag a parsed entry is written under
TagOfEntry(fd, i) ==
    LET c == ToInt(fd.items[i].key)
        u == IF c = 145 THEN 8216 ELSE IF c = 146 THEN 8217 ELSE c
    IN  "u+" \o Hex04(u, HexLower) \o ":"

BlocksTagged(sec, tag) == {k \in 1..NumBlocks(sec) : BlockTag(sec, k) = tag}

\* C23: generate_font_section skips every entry whose key is not a decimal
\* integer or that has no x: the count it returns is the number of blocks it
\* emitted, which is the number of entries that parse, each of them emitted
\* under its tag and no block emitted for any other entry.
C23_UnparsedSkipped ==
    pc = "returned"
        => /\ ret.count = NumBlocks(ret.lines)
           /\ ret.count = Cardinality(ParsedEntries(font_data))
           /\ \A i \in ParsedEntries(font_data) :
                  BlocksTagged(ret.lines, TagOfEntry(font_data, i)) # {}
           /\ \A k \in 1..NumBlocks(ret.lines) :
                  \E i \in ParsedEntries(font_data) :
                      BlockTag(ret.lines, k) = TagOfEntry(font_data, i)

\* a table with a word key, a dict without x and one glyph gave one block
C23_Witness ==
    /\ pc = "returned"
    /\ Len(font_data.items) = 3
    /\ \E i \in DOMAIN font_data.items :
          font_data.items[i].key = "abc" /\ HasCoordinates(font_data.items[i])
    /\ \E i \in DOMAIN font_data.items :
          font_data.items[i].key = "66" /\ font_data.items[i].isdict
          /\ "x" \notin DOMAIN font_data.items[i].val
    /\ ret.count = 1 /\ NumBlocks(ret.lines) = 1
    /\ BlockTag(ret.lines, 1) = "u+0041:"

(***************************************************************************)
(* Claims about the documents written by one run of generate_yaff          *)
(***************************************************************************)
\* the main font (0) and the subfonts of the run
Units == {0} \cup DOMAIN font_data.subfonts

\* the classification a unit gets on its own: analysis, then its override
OwnPattern(u) ==
    IF u = 0
    THEN OverrideMainPattern(
             analyze_font_pattern(image, font_data, GlobalHeight(font_data)), game_name)
    ELSE OwnSubfontPattern(u)

FilesOf(u) == {k \in DOMAIN files : files[k].sub = u}

\* header, global declarations and one block per glyph of the table
CompleteDocument(f) ==
    /\ f.lines[1] = "# YAFF font file"
    /\ WrittenThrough(f)
    /\ \E j \in DOMAIN f.lines : f.lines[j] = "encoding: unicode"
    /\ NumBlocks(GlyphSection(f.lines)) = Cardinality(ParsedEntries(FileFont(f)))

\* what holds of the documents written so far: none twice, none partial,
\* none for a skipped unit
WrittenOnceAndWhole ==
    /\ \A u \in Units : Cardinality(FilesOf(u)) <= 1
    /\ \A k \in DOMAIN files :
          CompleteDocument(files[k]) /\ ~Truthy(OwnPattern(files[k].sub), "skip")

\* C24: in one run of generate_yaff every main font or subfont that is not
\* skipped is written exactly once, in one write of the complete document
\* made after all its glyphs were extracted, and a skipped one is not
\* written.
C24_EachUnitWrittenOnce ==
    /\ WrittenOnceAndWhole
    /\ pc = "done" =>
          \A u \in Units : ~Truthy(OwnPattern(u), "skip") => Cardinality(FilesOf(u)) = 1

\* the same, for the runs whose main font is written
WrittenOnceWhenMainIsWritten ==
    /\ WrittenOnceAndWhole
    /\ (pc = "done" /\ ~Truthy(OwnPattern(0), "skip")) =>
          \A u \in Units : ~Truthy(OwnPattern(u), "skip") => Cardinality(FilesOf(u)) = 1

(***************************************************************************)
(* deathgenerator2yaff.main and convert_all.main                           *)
(***************************************************************************)
\* directory names in alphabetical order
NamePool == <<"aa", "bb", "cc", "dd", "ee">>

NameRank(name) == CHOOSE r \in DOMAIN NamePool : NamePool[r] = name

\* what generate_yaff does for a game whose two files exist: writes
\* documents, writes some and skips some, skips the main font, or raises
ConverterRuns == {"generated", "generated_with_skip", "skipped", "crashed"}

\* what subprocess.run does besides returning: the 30 s timeout, or another
\* exception
SubprocessFailures == {"timeout", "oserror"}

\* deathgenerator2yaff.main on a game directory e: the exit status, whether
\* os.makedirs(output_dir) was reached, and what stdout holds
ConverterMain(e) ==
    IF ~e.has_json
    THEN [returncode |-> 1, output_created |-> FALSE, generated |-> FALSE, skipped |-> 0]
    ELSE IF ~e.has_png
    THEN [returncode |-> 1, output_created |-> FALSE, generated |-> FALSE, skipped |-> 0]
    ELSE IF e.run = "crashed"
    THEN [returncode |-> 1, output_created |-> TRUE, generated |-> FALSE, skipped |-> 0]
    ELSE [returncode |-> 0, output_created |-> TRUE,
          generated |-> e.run \in {"generated", "generated_with_skip"},
          skipped |-> IF e.run \in {"generated_with_skip", "skipped"} THEN 1 ELSE 0]

\* list.sort by name, by insertion
RECURSIVE InsertByName(_, _)
InsertByName(sorted, e) ==
    IF sorted = <<>> THEN <<e>>
    ELSE IF NameRank(sorted[Len(sorted)].name) <= NameRank(e.name) THEN Append(sorted, e)
    ELSE Append(InsertByName(SubSeq(sorted, 1, Len(sorted) - 1), e), sorted[Len(sorted)])

RECURSIVE SortedListing(_)
SortedListing(l) ==
    IF l = <<>> THEN <<>>
    ELSE InsertByName(SortedListing(SubSeq(l, 1, Len(l) - 1)), l[Len(l)])

\* game_dirs: the directories of sorted(os.listdir(input_dir)) that hold
\* their <name>.json
CollectGameDirs(listing) ==
    SelectSeq(SortedListing(listing), LAMBDA e : e.isdir /\ e.has_json)

\* one pass of the loop body for game e: what it adds to the three tallies
\* and whether an exception leaves main. A print of the check mark or of the
\* cross raises UnicodeEncodeError when stdout cannot encode it: inside the
\* try it is caught by 'except Exception', inside a handler it is not.
LoopBody(e, stdout_encodes) ==
    IF e.run \in SubprocessFailures /\ e.has_png
    THEN [success |-> 0, skip |-> 0, error |-> 1, died |-> ~stdout_encodes]
    ELSE LET result == ConverterMain(e)
         IN  IF result.returncode = 0
             THEN IF result.generated
                  THEN IF stdout_encodes
                       THEN [success |-> 1, skip |-> result.skipped, error |-> 0,
                             died |-> FALSE]
                       ELSE [success |-> 1, skip |-> 0, error |-> 1, died |-> TRUE]
                  ELSE [success |-> 0, skip |-> result.skipped, error |-> 0,
                        died |-> FALSE]
             ELSE IF stdout_encodes
                  THEN [success |-> 0, skip |-> 0, error |-> 1, died |-> FALSE]
                  ELSE [success |-> 0, skip |-> 0, error |-> 2, died |-> TRUE]

BatchFrame ==
    UNCHANGED <<game_name, image, font_data, negative_wraps, libm_pow, generators_js,
                pattern, auto_pattern, sub_i, files, skipped, metadata_cache, reads,
                arg, ret>>

\* lines 19-32
BatchCollect ==
    /\ pc = "batch_collect"
    /\ batch' = [batch EXCEPT !.game_dirs = CollectGameDirs(batch.listing)]
    /\ pc' = "batch_loop"
    /\ BatchFrame

\* lines 34-63, one game
BatchGame ==
    /\ pc = "batch_loop"
    /\ batch.i <= Len(batch.game_dirs)
    /\ LET e == batch.game_dirs[batch.i]
           b == LoopBody(e, batch.stdout_encodes)
       IN  /\ batch' = [batch EXCEPT
                  !.i = batch.i + 1,
                  !.success_count = batch.success_count + b.success,
                  !.skip_count = batch.skip_count + b.skip,
                  !.error_count = batch.error_count + b.error,
                  !.attempts = Append(batch.attempts,
                                      [name |-> e.name, success |-> b.success,
                                       error |-> b.error])]
           /\ pc' = IF b.died THEN "batch_died" ELSE "batch_loop"
    /\ BatchFrame

\* lines 65-68
BatchFinish ==
    /\ pc = "batch_loop"
    /\ batch.i > Len(batch.game_dirs)
    /\ pc' = "batch_done"
    /\ UNCHANGED batch
    /\ BatchFrame

\* the converter started by hand on one game directory
ConvertMain ==
    /\ pc = "convert_main"
    /\ ret' = ConverterMain(arg)
    /\ pc' = "exited"
    /\ UNCHANGED <<game_name, image, font_data, negative_wraps, libm_pow, batch,
                   generators_js, pattern, auto_pattern, sub_i, files, skipped,
                   metadata_cache, reads, arg>>

(***************************************************************************)
(* Inputs of the two mains                                                 *)
(***************************************************************************)
BatchGames == 3

DirEntry(name, isdir, has_json, has_png, run) ==
    [name |-> name, isdir |-> isdir, has_json |-> has_json, has_png |-> has_png,
     run |-> run]

\* what a name of the input directory can be: a plain file, a directory
\* without its JSON, one without its raster, or a game with both
EntriesNamed(name) ==
    {DirEntry(name, FALSE, FALSE, FALSE, "generated"),
     DirEntry(name, TRUE, FALSE, TRUE, "generated"),
     DirEntry(name, TRUE, TRUE, FALSE, "generated")}
    \cup {DirEntry(name, TRUE, TRUE, TRUE, r) : r \in ConverterRuns \cup SubprocessFailures}

\* the entries of the names k, k + 1, ..., BatchGames, each present or not
RECURSIVE ListingsFrom(_)
ListingsFrom(k) ==
    IF k > BatchGames THEN {<<>>}
    ELSE LET rest == ListingsFrom(k + 1)
         IN  rest \cup {<<e>> \o l : e \in EntriesNamed(NamePool[k]), l \in rest}

Reversed(l) == [j \in DOMAIN l |-> l[Len(l) + 1 - j]]

\* os.listdir returns the names in arbitrary order
Listings == ListingsFrom(1) \cup {Reversed(l) : l \in ListingsFrom(1)}

InitBatch ==
    /\ Idle
    /\ image = <<<<White>>>>
    /\ font_data = PlainFont
    /\ negative_wraps = FALSE
    /\ libm_pow = "nearest"
    /\ \/ /\ pc = "batch_collect"
          /\ arg = EmptyDict
          /\ \E l \in Listings, enc \in BOOLEAN :
                batch = [listing |-> l, stdout_encodes |-> enc, game_dirs |-> <<>>,
                         i |-> 1, success_count |-> 0, skip_count |-> 0,
                         error_count |-> 0, attempts |-> <<>>]
       \/ /\ pc = "convert_main"
          /\ batch = NoBatch
          /\ arg \in {DirEntry("aa", TRUE, j, p, r) :
                         j \in BOOLEAN, p \in BOOLEAN, r \in ConverterRuns}

BatchNext == BatchCollect \/ BatchGame \/ BatchFinish \/ ConvertMain

SpecBatch == InitBatch /\ [][BatchNext]_vars

\* the games of the listing: directories holding their JSON, by name
GamesListed ==
    {j \in DOMAIN batch.listing : batch.listing[j].isdir /\ batch.listing[j].has_json}

\* the run of a game fails: no raster, an exception in the converter, the
\* timeout, or an exception of subprocess.run
FailingGame(name) ==
    \E j \in GamesListed :
        /\ batch.listing[j].name = name
        /\ \/ ~batch.listing[j].has_png
           \/ batch.listing[j].run \in {"crashed"} \cup SubprocessFailures

AttemptsInOrder ==
    /\ Len(batch.attempts) = Cardinality(GamesListed)
    /\ \A j \in GamesListed :
          \E k \in DOMAIN batch.attempts : batch.attempts[k].name = batch.listing[j].name
    /\ \A k \in 1..(Len(batch.attempts) - 1) :
          NameRank(batch.attempts[k].name) < NameRank(batch.attempts[k + 1].name)

TalliesPerGame ==
    \A k \in DOMAIN batch.attempts :
        /\ ~(batch.attempts[k].success > 0 /\ batch.attempts[k].error > 0)
        /\ FailingGame(batch.attempts[k].name) => batch.attempts[k].error = 1

\* C25: the converter exits non-zero before creating any output when the
\* JSON or the raster is missing; the batch driver runs every game directory
\* once, in sorted order, a failing game adds exactly one to the error
\* tally, the driver goes on to the next game, and no game adds to both the
\* success and the error tally.
C25_FatalErrorsStayLocal ==
    /\ (pc = "exited" /\ (~arg.has_json \/ ~arg.has_png))
          => (ret.returncode # 0 /\ ~ret.output_created)
    /\ pc # "batch_died"
    /\ pc \in {"batch_loop", "batch_done"} => TalliesPerGame
    /\ pc = "batch_done" => AttemptsInOrder

\* the same holds when stdout can encode the check mark and the cross
FatalErrorsStayLocalWhenEncodable ==
    (batch = NoBatch \/ batch.stdout_encodes)
        => /\ (pc = "exited" /\ (~arg.has_json \/ ~arg.has_png))
                 => (ret.returncode # 0 /\ ~ret.output_created)
           /\ pc # "batch_died"
           /\ pc \in {"batch_loop", "batch_done"} => TalliesPerGame
           /\ pc = "batch_done" => AttemptsInOrder

(***************************************************************************)
(* Claims about the codepoint tags of one glyph section                    *)
(***************************************************************************)
\* C26: in a document of generate_font_section no two glyph blocks carry the
\* same 'u+XXXX' tag, whatever the distinct source keys, also when a table
\* holds 145 or 146 next to the 8216 or 8217 it is mapped to.
C26_TagsDistinct ==
    (pc = "returned" /\ DistinctKeys(font_data.items))
        => \A k, m \in 1..NumBlocks(ret.lines) :
               BlockTag(ret.lines, k) = BlockTag(ret.lines, m) => k = m

(***************************************************************************)
(* extract_glyph_pixels applied to pixels around the opacity threshold     *)
(***************************************************************************)
\* white, near-black, mid and bright red at alpha 128 and 129, a dark gray
\* and a transparent pixel
InkPalette ==
    {Clear, <<255, 255, 255, 128>>, <<255, 255, 255, 129>>, <<0, 0, 0, 129>>,
     <<120, 0, 0, 128>>, <<120, 0, 0, 129>>, <<255, 0, 0, 129>>, <<60, 60, 60, 255>>}

InkSheets == {<<row>> : row \in [1..ImgW -> InkPalette]}

\* the classifications of ExtractPatterns, and every type with both flags
InkPatterns ==
    ExtractPatterns
    \cup {[type |-> t, remove_shadow |-> TRUE, remove_outline |-> TRUE] : t \in FontTypes}

InitInk ==
    /\ Idle
    /\ image \in InkSheets
    /\ font_data = PlainFont
    /\ negative_wraps \in BOOLEAN
    /\ libm_pow = "nearest"
    /\ batch = NoBatch
    /\ arg \in [x : (0 - 1)..0, y : {0}, w : {ImgW}, h : {1}, pat : InkPatterns]
    /\ pc = "call_extract"

SpecInk == InitInk /\ [][ApplyExtract]_vars

\* the rows of the default, keep-all extraction of the same rectangle
KeepAllRows == extract_glyph_pixels(image, arg.x, arg.y, arg.w, arg.h, EmptyDict)

InkCells(rows) ==
    {<<py, px>> \in (DOMAIN rows) \X (1..arg.w) : SubSeq(rows[py], px, px) = "@"}

\* the cells of the rectangle that lie on a pixel of alpha at most 128
FaintCells ==
    {<<py, px>> \in (1..arg.h) \X (1..arg.w) :
        /\ InBounds(image, arg.x + px - 1, arg.y + py - 1)
        /\ image[arg.y + py][arg.x + px][4] <= 128}

\* C27: under every classification a pixel of alpha at most 128 is '.', and
\* the ink cells are among the ink cells of the default extraction.
C27_FaintNeverInk ==
    (pc = "returned" /\ arg.w > 0 /\ arg.h > 0)
        => /\ InkCells(ret) \cap FaintCells = {}
           /\ InkCells(ret) \subseteq InkCells(KeepAllRows)

\* under a classification with a removal flag, a row held a pixel of alpha
\* 128 left blank next to a pixel of alpha 129 that was inked
C27_Witness ==
    /\ pc = "returned" /\ arg.x = 0
    /\ Truthy(arg.pat, "remove_shadow") \/ Truthy(arg.pat, "remove_outline")
    /\ \E c \in FaintCells : image[arg.y + c[1]][arg.x + c[2]][4] = 128
    /\ \E c \in InkCells(ret) : image[arg.y + c[1]][arg.x + c[2]][4] = 129
    /\ InkCells(ret) \subseteq InkCells(KeepAllRows)

====
